---- MODULE Spec2Model ----
(***************************************************************************)
(* Verification model of the yex-lang front end and value runtime:         *)
(*   - the recursive-descent parser (front/src/parser/mod.rs),             *)
(*   - operator lowering (front/src/parser/ast.rs),                        *)
(*   - the persistent list (vm/src/literal/list/mod.rs),                   *)
(*   - the mutable cell and its bridge (vm/src/literal/mutable),           *)
(*   - runtime values and their equality (vm/src/literal/mod.rs),          *)
(*   - the string split bridge (vm/src/literal/str/methods.rs).            *)
(* Each component has its own specification over the shared variables.     *)
(***************************************************************************)
EXTENDS Integers, Sequences, FiniteSets, TLC

VARIABLES
    toks,      \* parser: the token stream handed over by the lexer, without its Eof
    result,    \* parser: outcome of the last parse / parse_expr run
    lowered,   \* lowering: last BinOp -> opcode conversion
    heap,      \* lists: GcRef<Node> allocations, node id -> [elem, next]
    lists,     \* lists: every List value obtained so far, with what it denoted
    lastOp,    \* lists: the last list operation and its result
    slots,     \* mutable: Box<Value> allocations, ptr -> Value
    handles,   \* mutable: every Value::Mutable held, handle -> ptr
    written,   \* mutable: ptr -> value of the most recent bridge set (history)
    got,       \* mutable: last bridge call and what it returned
    va, vb,    \* values: two operands
    vout,      \* values: last value operation and its result
    subject,   \* str: subject string of the split bridge (sequence of chars)
    pat,       \* str: separator string
    splitOut   \* str: last split call and its result

vars == <<toks, result, lowered, heap, lists, lastOp, slots, handles, written,
          got, va, vb, vout, subject, pat, splitOut>>
parserVars == <<toks, result, lowered>>
listVars == <<heap, lists, lastOp>>
mutVars == <<slots, handles, written, got>>
valVars == <<va, vb, vout>>
strVars == <<subject, pat, splitOut>>
\* what each component leaves alone
notParser == <<listVars, mutVars, valVars, strVars>>
notList == <<parserVars, mutVars, valVars, strVars>>
notMut == <<parserVars, listVars, valVars, strVars>>
notVal == <<parserVars, listVars, mutVars, strVars>>
notStr == <<parserVars, listVars, mutVars, valVars>>

(***************************************************************************)
(* Tokens.  A token is its TokenType discriminant t and its payload v; its *)
(* line/column is its index in the stream.                                 *)
(***************************************************************************)
Tok(t, v) == [t |-> t, v |-> v]
T(t) == Tok(t, "")
EofTok == T("Eof")

\* Expr::default(): a unit literal at 0:0
NoExpr == [k |-> "Lit", lit |-> "Unit", v |-> "", loc |-> 0]

\* a lexer: the finite token sequence ending in Eof, and whether the lexer
\* keeps yielding Eof (rep) or is exhausted (None) once Eof has been delivered
Lexer(ts, rep) == [toks |-> Append(ts, EofTok), rep |-> rep]
PastEnd(lx, i) == i > Len(lx.toks)

\* parser state: index of `current`, status, error location, and whether a
\* token was requested from the lexer after its Eof
StartState == [pos |-> 0, st |-> "ok", eloc |-> 0, past |-> FALSE]
Ok(p) == p.st = "ok"
R(p, v) == [p |-> p, v |-> v]

Cur(lx, p) == IF PastEnd(lx, p.pos) THEN EofTok ELSE lx.toks[p.pos]

\* self.current = self.lexer.next().unwrap()?
next(lx, p) ==
    IF ~PastEnd(lx, p.pos + 1) THEN [p EXCEPT !.pos = p.pos + 1]
    ELSE IF lx.rep THEN [p EXCEPT !.pos = p.pos + 1, !.past = TRUE]
    ELSE [p EXCEPT !.st = "panic", !.past = TRUE]

\* self.lexer.peek().unwrap()
peek(lx, p) ==
    IF ~PastEnd(lx, p.pos + 1) THEN R(p, lx.toks[p.pos + 1])
    ELSE IF lx.rep THEN R([p EXCEPT !.past = TRUE], EofTok)
    ELSE R([p EXCEPT !.st = "panic", !.past = TRUE], EofTok)

\* ParseError::throw(self.current.line, self.current.column, ..)
throw(p) == [p EXCEPT !.st = "err", !.eloc = p.pos]

assert(lx, p, expected) == IF Cur(lx, p).t = expected THEN p ELSE throw(p)

expect(lx, p, expected) ==
    LET a == assert(lx, p, expected) IN IF Ok(a) THEN next(lx, a) ELSE a

RECURSIVE skip(_, _, _)
skip(lx, p, t) ==
    IF Cur(lx, p).t = t
    THEN LET n == next(lx, p) IN IF Ok(n) THEN skip(lx, n, t) ELSE n
    ELSE p

expect_and_skip(lx, p, t) ==
    LET e == expect(lx, p, t) IN IF Ok(e) THEN skip(lx, e, t) ELSE e

\* take the current Name token, then next
var_decl(lx, p) ==
    IF Cur(lx, p).t = "Name" THEN R(next(lx, p), Cur(lx, p).v)
    ELSE R(throw(p), "")

(***************************************************************************)
(* Expression grammar.  Every production returns R(p, v): the parser state *)
(* after it and the node built; a state that is not Ok is propagated (`?`).*)
(***************************************************************************)
\* the binary precedence levels, loosest first
Levels == <<"logic_or", "logic_and", "eq", "cmp", "cons", "bitwise", "term", "fact">>

\* the operator tokens each level's loop matches
LevelOps(l) ==
    CASE l = "logic_or" -> {"Or"}
      [] l = "logic_and" -> {"And"}
      [] l = "eq" -> {"Eq", "Ne"}
      [] l = "cmp" -> {"Less", "LessEq", "Greater", "GreaterEq"}
      [] l = "cons" -> {"Cons"}
      [] l = "bitwise" -> {"BitOr", "BitAnd", "BitXor", "Shr", "Shl"}
      [] l = "term" -> {"Add", "Sub"}
      [] l = "fact" -> {"Mul", "Div"}

\* (mutant) term and fact exchanged in the chain: bitwise -> fact -> term -> prefix
OperandTermFactSwapped(l) ==
    CASE l = "logic_or" -> "logic_and"
      [] l = "logic_and" -> "eq"
      [] l = "eq" -> "cmp"
      [] l = "cmp" -> "cons"
      [] l = "cons" -> "bitwise"
      [] l = "bitwise" -> "fact"
      [] l = "fact" -> "term"
      [] l = "term" -> "prefix"

\* the production each level calls for its left operand
Operand(l) ==
    CASE l = "logic_or" -> "logic_and"
      [] l = "logic_and" -> "eq"
      [] l = "eq" -> "cmp"
      [] l = "cmp" -> "cons"
      [] l = "cons" -> "bitwise"
      [] l = "bitwise" -> "term"
      [] l = "term" -> "fact"
      [] l = "fact" -> "prefix"

\* (mutant) every level recurses into itself for its right operand
RightOperand_same_level(l) == l

\* the production each level calls for its right operand: cons recurses
\* into itself, every other level calls the same production as on the left
RightOperand(l) == IF l = "cons" THEN "cons" ELSE Operand(l)

\* (mutant) every level records the operator's location
NodeLoc_operator(l, left, opPos) == opPos

\* which location a level's node records: the left operand's or the operator's
NodeLoc(l, left, opPos) ==
    IF l \in {"logic_or", "logic_and"} THEN left.loc ELSE opPos

\* TryFrom<TokenType> for BinOp: same-named operator
BinOpOf(t) == t

\* TryFrom<TokenType> for UnOp
UnOpOf(t) == IF t = "Not" THEN "Not" ELSE "Neg"

MkNode(l, left, op, right, opPos) ==
    IF l = "cons"
    THEN [k |-> "Cons", head |-> left, tail |-> right, loc |-> opPos]
    ELSE [k |-> "Binary", left |-> left, op |-> BinOpOf(op), right |-> right,
          loc |-> NodeLoc(l, left, opPos)]

RECURSIVE Call(_, _, _, _)

expr(lx, p) ==
    LET t == Cur(lx, p).t
        r == IF t = "Let" THEN Call("let_", lx, p, <<>>)
             ELSE IF t = "If" THEN Call("condition", lx, p, <<>>)
             ELSE IF t = "Fn" THEN Call("fn_", lx, p, <<>>)
             ELSE Call("level", lx, p, "logic_or")
    IN  IF Ok(r.p) THEN Call("expr_seq", lx, r, <<>>) ELSE r

\* (mutant) the right of a Seq is one operand chain, not a whole expression:
\* the chain nests to the left
expr_seq_left(lx, r) ==
    IF Cur(lx, r.p).t # "Seq" THEN r
    ELSE LET n == next(lx, r.p) IN
         IF ~Ok(n) THEN R(n, NoExpr)
         ELSE LET right == Call("level", lx, n, "logic_or") IN
              IF ~Ok(right.p) THEN right
              ELSE Call("expr_seq", lx, R(right.p,
                       [k |-> "Seq", left |-> r.v, right |-> right.v,
                        loc |-> right.p.pos]), <<>>)

\* while self.current.token == Tkt::Seq
expr_seq(lx, r) ==
    IF Cur(lx, r.p).t # "Seq" THEN r
    ELSE LET n == next(lx, r.p) IN
         IF ~Ok(n) THEN R(n, NoExpr)
         ELSE LET right == Call("expr", lx, n, <<>>) IN
              IF ~Ok(right.p) THEN right
              ELSE Call("expr_seq", lx, R(right.p,
                       [k |-> "Seq", left |-> r.v, right |-> right.v,
                        loc |-> right.p.pos]), <<>>)

\* the levels entered on the way from level l down to prefix
RECURSIVE Chain(_)
Chain(l) == IF l = "prefix" THEN <<>> ELSE <<l>> \o Chain(Operand(l))

\* logic_or, logic_and, eq, cmp, cons, bitwise, term, fact: every level
\* starts by calling the next one for its left operand, so the descent from
\* level l ends in prefix; on the way back each level entered, tightest
\* first, runs its loop on what the level below returned
level(lx, p, l) ==
    LET left == Call("prefix", lx, p, <<>>) IN
    IF Ok(left.p) THEN Call("climb", lx, left, <<Chain(l), Len(Chain(l))>>)
    ELSE left

\* the return through the levels chain[i], .., chain[1]; an error ends it (`?`)
climb(lx, left, chain, i) ==
    IF i = 0 \/ ~Ok(left.p) THEN left
    ELSE Call("climb", lx, Call("level_loop", lx, left, chain[i]),
              <<chain, i - 1>>)

\* while let <ops of the level> = self.current.token
level_loop(lx, left, l) ==
    IF Cur(lx, left.p).t \notin LevelOps(l) THEN left
    ELSE LET opPos == left.p.pos
             op == Cur(lx, left.p).t
             n == next(lx, left.p)
         IN  IF ~Ok(n) THEN R(n, NoExpr)
             ELSE LET right == Call("level", lx, n, RightOperand(l)) IN
                  IF ~Ok(right.p) THEN right
                  ELSE Call("level_loop", lx,
                            R(right.p, MkNode(l, left.v, op, right.v, opPos)), l)

prefix(lx, p) ==
    IF Cur(lx, p).t \in {"Sub", "Not"}
    THEN LET n == next(lx, p) IN
         IF ~Ok(n) THEN R(n, NoExpr)
         ELSE LET right == Call("prefix", lx, n, <<>>) IN
              IF ~Ok(right.p) THEN right
              ELSE R(right.p, [k |-> "UnOp", op |-> UnOpOf(Cur(lx, p).t),
                               right |-> right.v, loc |-> p.pos])
    ELSE Call("instance", lx, p, <<>>)

instance(lx, p) ==
    IF Cur(lx, p).t = "New"
    THEN LET n == next(lx, p) IN
         IF ~Ok(n) THEN R(n, NoExpr)
         ELSE LET ty == Call("primary", lx, n, <<>>) IN
              IF ~Ok(ty.p) THEN ty
              ELSE LET n2 == next(lx, ty.p) IN
                   IF ~Ok(n2) THEN R(n2, NoExpr)
                   ELSE LET a == assert(lx, n2, "Lparen") IN
                        IF ~Ok(a) THEN R(a, NoExpr)
                        ELSE LET as == Call("call_args", lx, a, <<>>) IN
                             IF ~Ok(as.p) THEN R(as.p, NoExpr)
                             ELSE R(as.p, [k |-> "New", ty |-> ty.v,
                                           args |-> as.v, loc |-> p.pos])
    ELSE Call("dot", lx, p, <<>>)

dot(lx, p) ==
    LET obj == Call("call", lx, p, <<>>) IN
    IF Ok(obj.p) THEN Call("dot_loop", lx, obj, <<>>) ELSE obj

\* while self.current.token == Tkt::Dot
dot_loop(lx, obj) ==
    IF Cur(lx, obj.p).t # "Dot" THEN obj
    ELSE LET r == Call("dot_access", lx, obj.p, obj.v) IN
         IF Ok(r.p) THEN Call("dot_loop", lx, r, <<>>) ELSE r

\* (mutant) a method invocation is read as a field: the arguments are left
dot_access_field_only(lx, p, obj) ==
    LET n == next(lx, p) IN
    IF ~Ok(n) THEN R(n, NoExpr)
    ELSE LET field == var_decl(lx, n) IN
         IF ~Ok(field.p) THEN R(field.p, NoExpr)
         ELSE R(field.p, [k |-> "Field", obj |-> obj, field |-> field.v,
                          loc |-> p.pos])

dot_access(lx, p, obj) ==
    LET n == next(lx, p) IN
    IF ~Ok(n) THEN R(n, NoExpr)
    ELSE LET field == var_decl(lx, n) IN
         IF ~Ok(field.p) THEN R(field.p, NoExpr)
         ELSE IF Cur(lx, field.p).t = "Lparen"
              THEN LET as == Call("call_args", lx, field.p, <<>>) IN
                   IF ~Ok(as.p) THEN R(as.p, NoExpr)
                   ELSE R(as.p, [k |-> "Invoke", obj |-> obj, field |-> field.v,
                                 args |-> as.v, loc |-> p.pos])
              ELSE R(field.p, [k |-> "Field", obj |-> obj, field |-> field.v,
                               loc |-> p.pos])

\* the loop shared by call_args and list:
\* while current != close { push expr; match current { Comma => skip, close => break, _ => throw } }
items(lx, p, acc, close) ==
    IF Cur(lx, p).t = close THEN R(p, acc)
    ELSE LET e == Call("expr", lx, p, <<>>) IN
         IF ~Ok(e.p) THEN R(e.p, acc)
         ELSE LET t == Cur(lx, e.p).t
                  acc2 == Append(acc, e.v)
              IN  IF t = "Comma"
                  THEN LET s == skip(lx, e.p, "Comma") IN
                       IF Ok(s) THEN Call("items", lx, s, <<acc2, close>>)
                       ELSE R(s, acc2)
                  ELSE IF t = close THEN R(e.p, acc2)
                  ELSE R(throw(e.p), acc2)

call_args(lx, p) ==
    LET n == next(lx, p) IN
    IF ~Ok(n) THEN R(n, <<>>)
    ELSE LET as == Call("items", lx, n, <<<<>>, "Rparen">>) IN
         IF ~Ok(as.p) THEN as ELSE R(next(lx, as.p), as.v)

call(lx, p) ==
    LET callee == Call("primary", lx, p, <<>>) IN
    IF ~Ok(callee.p) THEN callee
    ELSE LET n == next(lx, callee.p) IN
         IF ~Ok(n) THEN R(n, NoExpr)
         ELSE Call("call_loop", lx, R(n, callee.v), <<>>)

\* while self.current.token == Tkt::Lparen
call_loop(lx, callee) ==
    IF Cur(lx, callee.p).t # "Lparen" THEN callee
    ELSE LET as == Call("call_args", lx, callee.p, <<>>) IN
         IF ~Ok(as.p) THEN R(as.p, NoExpr)
         ELSE Call("call_loop", lx, R(as.p, [k |-> "App", callee |-> callee.v,
                                     args |-> as.v, loc |-> callee.v.loc]), <<>>)

list(lx, p) ==
    LET es == Call("items", lx, p, <<<<>>, "Rbrack">>) IN
    IF ~Ok(es.p) THEN R(es.p, NoExpr)
    ELSE R(es.p, [k |-> "List", elems |-> es.v, loc |-> p.pos])

primary(lx, p) ==
    LET t == Cur(lx, p).t
        v == Cur(lx, p).v
        Lit(lit) == R(p, [k |-> "Lit", lit |-> lit, loc |-> p.pos,
                          v |-> IF lit = "Bool" THEN t ELSE v])
    IN  CASE t = "Num" -> Lit("Num")
          [] t = "Str" -> Lit("Str")
          [] t = "True" -> Lit("Bool")
          [] t = "False" -> Lit("Bool")
          [] t = "Name" -> R(p, [k |-> "Var", v |-> v, loc |-> p.pos])
          [] t = "Sym" -> Lit("Sym")
          [] t = "Lbrack" ->
                LET n == next(lx, p) IN
                IF Ok(n) THEN Call("list", lx, n, <<>>) ELSE R(n, NoExpr)
          [] t = "Lparen" ->
                LET n == next(lx, p) IN
                IF ~Ok(n) THEN R(n, NoExpr)
                ELSE LET e == Call("expr", lx, n, <<>>) IN
                     IF ~Ok(e.p) THEN e
                     ELSE R(assert(lx, e.p, "Rparen"), e.v)
          [] t = "Nil" -> Lit("Unit")
          [] OTHER -> R(throw(p), NoExpr)

condition(lx, p) ==
    LET i == expect(lx, p, "If") IN
    IF ~Ok(i) THEN R(i, NoExpr)
    ELSE LET cond == Call("expr", lx, i, <<>>) IN
         IF ~Ok(cond.p) THEN cond
         ELSE LET t == expect(lx, cond.p, "Then") IN
              IF ~Ok(t) THEN R(t, NoExpr)
              ELSE LET then == Call("expr", lx, t, <<>>) IN
                   IF ~Ok(then.p) THEN then
                   ELSE LET e == expect(lx, then.p, "Else") IN
                        IF ~Ok(e) THEN R(e, NoExpr)
                        ELSE LET else_ == Call("expr", lx, e, <<>>) IN
                             IF ~Ok(else_.p) THEN else_
                             ELSE R(else_.p, [k |-> "If", cond |-> cond.v,
                                              then |-> then.v, else_ |-> else_.v,
                                              loc |-> i.pos])

\* while current != Rparen { var_decl; match current { Comma => skip, Rparen => break, _ => throw } }
args_loop(lx, p, acc) ==
    IF Cur(lx, p).t = "Rparen" THEN R(p, acc)
    ELSE LET var == var_decl(lx, p) IN
         IF ~Ok(var.p) THEN R(var.p, acc)
         ELSE LET t == Cur(lx, var.p).t
                  acc2 == Append(acc, var.v)
              IN  IF t = "Comma"
                  THEN LET s == skip(lx, var.p, "Comma") IN
                       IF Ok(s) THEN Call("args_loop", lx, s, acc2) ELSE R(s, acc2)
                  ELSE IF t = "Rparen" THEN R(var.p, acc2)
                  ELSE R(throw(var.p), acc2)

args(lx, p) ==
    LET a == assert(lx, p, "Lparen") IN
    IF ~Ok(a) THEN R(a, <<>>)
    ELSE LET n == next(lx, a) IN
         IF ~Ok(n) THEN R(n, <<>>)
         ELSE LET as == Call("args_loop", lx, n, <<>>) IN
              IF ~Ok(as.p) THEN as ELSE R(next(lx, as.p), as.v)

function(lx, p) ==
    LET as == Call("args", lx, p, <<>>) IN
    IF ~Ok(as.p) THEN R(as.p, NoExpr)
    ELSE LET e == expect(lx, as.p, "Assign") IN
         IF ~Ok(e) THEN R(e, NoExpr)
         ELSE LET body == Call("expr", lx, e, <<>>) IN
              IF ~Ok(body.p) THEN body
              ELSE R(body.p, [k |-> "Lambda", args |-> as.v, body |-> body.v,
                              loc |-> p.pos])

fn_(lx, p) ==
    LET e == expect(lx, p, "Fn") IN
    IF Ok(e) THEN Call("function", lx, e, <<>>) ELSE R(e, NoExpr)

\* Bind::new(name, value, line, column)
MkBind(name, value, loc) == [bind |-> name, value |-> value, loc |-> loc]

bind_fn(lx, p) ==
    IF Cur(lx, p).t # "Name" THEN R(throw(p), NoExpr)
    ELSE LET n == next(lx, p) IN
         IF ~Ok(n) THEN R(n, NoExpr)
         ELSE LET value == Call("function", lx, n, <<>>) IN
              IF ~Ok(value.p) THEN value
              ELSE R(value.p, MkBind(Cur(lx, p).v, value.v, p.pos))

bind(lx, p) ==
    LET pk == peek(lx, p) IN
    IF ~Ok(pk.p) THEN R(pk.p, NoExpr)
    ELSE IF pk.v.t = "Lparen" THEN Call("bind_fn", lx, pk.p, <<>>)
    ELSE LET name == var_decl(lx, pk.p) IN
         IF ~Ok(name.p) THEN R(name.p, NoExpr)
         ELSE LET e == expect(lx, name.p, "Assign") IN
              IF ~Ok(e) THEN R(e, NoExpr)
              ELSE LET value == Call("expr", lx, e, <<>>) IN
                   IF ~Ok(value.p) THEN value
                   ELSE R(value.p, MkBind(name.v, value.v, p.pos))

\* while self.current.token != Tkt::In
let_loop(lx, p, binds) ==
    IF Cur(lx, p).t = "In" THEN R(p, binds)
    ELSE LET pk == peek(lx, p) IN
         IF ~Ok(pk.p) THEN R(pk.p, binds)
         ELSE LET b == IF pk.v.t = "Lparen" THEN Call("bind_fn", lx, pk.p, <<>>)
                       ELSE Call("bind", lx, pk.p, <<>>)
              IN  IF ~Ok(b.p) THEN R(b.p, binds)
                  ELSE Call("let_loop", lx, b.p, Append(binds, b.v))

let_(lx, p) ==
    LET l == expect(lx, p, "Let") IN
    IF ~Ok(l) THEN R(l, NoExpr)
    ELSE LET bs == Call("let_loop", lx, l, <<>>) IN
         IF ~Ok(bs.p) THEN R(bs.p, NoExpr)
         ELSE LET n == next(lx, bs.p) IN
              IF ~Ok(n) THEN R(n, NoExpr)
              ELSE LET body == Call("expr", lx, n, <<>>) IN
                   IF ~Ok(body.p) THEN body
                   ELSE R(body.p, [k |-> "Let", binds |-> bs.v, body |-> body.v,
                                   loc |-> n.pos])

(***************************************************************************)
(* Statements and the two entry points.                                    *)
(***************************************************************************)
\* Stmt::new(StmtKind::Def(Def { bind, value, bind_type }), line, column)
MkDef(name, value, bind_type, loc) ==
    [k |-> "Def", bind |-> name, value |-> value, bind_type |-> bind_type,
     loc |-> loc]

def_fn(lx, p) ==
    IF Cur(lx, p).t # "Name" THEN R(throw(p), NoExpr)
    ELSE LET n == next(lx, p) IN
         IF ~Ok(n) THEN R(n, NoExpr)
         ELSE LET value == Call("function", lx, n, <<>>) IN
              IF ~Ok(value.p) THEN value
              ELSE R(value.p, MkDef(Cur(lx, p).v, value.v, "Fn", p.pos))

def_bind(lx, p) ==
    LET d == expect(lx, p, "Def") IN
    IF ~Ok(d) THEN R(d, NoExpr)
    ELSE LET pk == peek(lx, d) IN
         IF ~Ok(pk.p) THEN R(pk.p, NoExpr)
         ELSE IF pk.v.t = "Lparen" THEN Call("def_fn", lx, pk.p, <<>>)
         ELSE LET name == var_decl(lx, pk.p) IN
              IF ~Ok(name.p) THEN R(name.p, NoExpr)
              ELSE LET e == expect(lx, name.p, "Assign") IN
                   IF ~Ok(e) THEN R(e, NoExpr)
                   ELSE LET value == Call("expr", lx, e, <<>>) IN
                        IF ~Ok(value.p) THEN value
                        ELSE R(value.p, MkDef(name.v, value.v, "Value", d.pos))

\* while current != Rparen { push var_decl; if current == Rparen break; expect_and_skip(Comma) }
params_loop(lx, p, acc) ==
    IF Cur(lx, p).t = "Rparen" THEN R(p, acc)
    ELSE LET var == var_decl(lx, p) IN
         IF ~Ok(var.p) THEN R(var.p, acc)
         ELSE IF Cur(lx, var.p).t = "Rparen" THEN R(var.p, Append(acc, var.v))
         ELSE LET c == expect_and_skip(lx, var.p, "Comma") IN
              IF Ok(c) THEN Call("params_loop", lx, c, Append(acc, var.v))
              ELSE R(c, acc)

\* (mutant) a binding named init is also kept as a method, and the first
\* parameter of a method is not looked at
methods_loop_unchecked(lx, p, acc) ==
    IF Cur(lx, p).t = "End" THEN R(p, acc)
    ELSE LET d == Call("def_bind", lx, p, <<>>) IN
         IF ~Ok(d.p) THEN R(d.p, acc)
         ELSE IF d.v.bind_type # "Fn" THEN R(throw(d.p), acc)
         ELSE Call("methods_loop", lx, d.p,
                   [methods |-> Append(acc.methods, d.v),
                    init |-> IF d.v.bind = "init" THEN <<d.v>> ELSE acc.init])

\* while current != End { def_bind; must be Fn; init is kept apart;
\*                        others need `this` as first parameter }
\* acc = [methods |-> <<..>>, init |-> <<>> or <<def>>]
methods_loop(lx, p, acc) ==
    IF Cur(lx, p).t = "End" THEN R(p, acc)
    ELSE LET d == Call("def_bind", lx, p, <<>>) IN
         IF ~Ok(d.p) THEN R(d.p, acc)
         ELSE IF d.v.bind_type # "Fn" THEN R(throw(d.p), acc)
         ELSE IF d.v.bind = "init"
              THEN Call("methods_loop", lx, d.p, [acc EXCEPT !.init = <<d.v>>])
         ELSE IF d.v.value.k = "Lambda" /\ d.v.value.args # <<>>
                 /\ d.v.value.args[1] = "this"
              THEN Call("methods_loop", lx, d.p,
                        [acc EXCEPT !.methods = Append(@, d.v)])
         ELSE R(throw(d.p), acc)

type_bind(lx, p) ==
    LET t == expect(lx, p, "Type") IN
    IF ~Ok(t) THEN R(t, NoExpr)
    ELSE LET name == var_decl(lx, t) IN
         IF ~Ok(name.p) THEN R(name.p, NoExpr)
         ELSE LET l == expect(lx, name.p, "Lparen") IN
              IF ~Ok(l) THEN R(l, NoExpr)
              ELSE LET ps == Call("params_loop", lx, l, <<>>) IN
                   IF ~Ok(ps.p) THEN R(ps.p, NoExpr)
                   ELSE LET n == next(lx, ps.p) IN
                        IF ~Ok(n) THEN R(n, NoExpr)
                        ELSE LET ms == Call("methods_loop", lx, n,
                                           [methods |-> <<>>, init |-> <<>>])
                             IN  IF ~Ok(ms.p) THEN R(ms.p, NoExpr)
                                 ELSE R(next(lx, ms.p),
                                        [k |-> "Type", name |-> name.v,
                                         params |-> ps.v,
                                         methods |-> ms.v.methods,
                                         init |-> ms.v.init, loc |-> t.pos])

\* From<Expr> for Stmt
ExprStmt(e) == [k |-> "Expr", expr |-> e, loc |-> e.loc]

\* while self.current.token != Tkt::Eof
parse_loop(lx, p, stmts) ==
    IF Cur(lx, p).t = "Eof" THEN R(p, stmts)
    ELSE LET t == Cur(lx, p).t
             s == IF t = "Type" THEN Call("type_bind", lx, p, <<>>)
                  ELSE IF t = "Def" THEN Call("def_bind", lx, p, <<>>)
                  ELSE LET e == Call("expr", lx, p, <<>>) IN R(e.p, ExprStmt(e.v))
         IN  IF ~Ok(s.p) THEN R(s.p, stmts)
             ELSE Call("parse_loop", lx, s.p, Append(stmts, s.v))

\* one production applied to the parser state (or partial result) x, with its
\* further argument a: every call between productions goes through here
Call(prod, lx, x, a) ==
    CASE prod = "expr" -> expr(lx, x)
      [] prod = "expr_seq" -> expr_seq(lx, x)
      [] prod = "level" -> level(lx, x, a)
      [] prod = "climb" -> climb(lx, x, a[1], a[2])
      [] prod = "level_loop" -> level_loop(lx, x, a)
      [] prod = "prefix" -> prefix(lx, x)
      [] prod = "instance" -> instance(lx, x)
      [] prod = "dot" -> dot(lx, x)
      [] prod = "dot_loop" -> dot_loop(lx, x)
      [] prod = "dot_access" -> dot_access(lx, x, a)
      [] prod = "items" -> items(lx, x, a[1], a[2])
      [] prod = "call_args" -> call_args(lx, x)
      [] prod = "call" -> call(lx, x)
      [] prod = "call_loop" -> call_loop(lx, x)
      [] prod = "list" -> list(lx, x)
      [] prod = "primary" -> primary(lx, x)
      [] prod = "condition" -> condition(lx, x)
      [] prod = "args_loop" -> args_loop(lx, x, a)
      [] prod = "args" -> args(lx, x)
      [] prod = "function" -> function(lx, x)
      [] prod = "fn_" -> fn_(lx, x)
      [] prod = "bind_fn" -> bind_fn(lx, x)
      [] prod = "bind" -> bind(lx, x)
      [] prod = "let_loop" -> let_loop(lx, x, a)
      [] prod = "let_" -> let_(lx, x)
      [] prod = "def_fn" -> def_fn(lx, x)
      [] prod = "def_bind" -> def_bind(lx, x)
      [] prod = "params_loop" -> params_loop(lx, x, a)
      [] prod = "methods_loop" -> methods_loop(lx, x, a)
      [] prod = "type_bind" -> type_bind(lx, x)
      [] prod = "parse_loop" -> parse_loop(lx, x, a)

\* Parser::new: load the first token
new(lx) == next(lx, StartState)

\* what the caller of an entry point gets: Ok(ast), Err(ParseError at eloc),
\* or no return at all (panic); `stop` is the index of `current` at the end
Outcome(fn, lx, r) ==
    [fn |-> fn, rep |-> lx.rep, st |-> r.p.st, stop |-> r.p.pos,
     eloc |-> IF r.p.st = "err" THEN r.p.eloc ELSE 0,
     past |-> r.p.past,
     v |-> IF Ok(r.p) THEN r.v ELSE NoExpr]

parse(lx) ==
    LET p == new(lx) IN
    Outcome("parse", lx, IF Ok(p) THEN Call("parse_loop", lx, p, <<>>) ELSE R(p, <<>>))

parse_expr(lx) ==
    LET p == new(lx) IN
    Outcome("parse_expr", lx,
            IF Ok(p) THEN Call("expr", lx, p, <<>>) ELSE R(p, NoExpr))

(***************************************************************************)
(* Operator lowering: impl From<BinOp> for &[OpCode].                      *)
(***************************************************************************)
BinOps == {"Less", "LessEq", "Greater", "GreaterEq", "Add", "Sub", "Mul", "Div",
           "BitAnd", "BitOr", "BitXor", "Shr", "Shl", "Eq", "Ne", "And", "Or"}

\* <<"unreachable">> stands for the unreachable!() abort: no sequence is returned
Unreachable == <<"unreachable">>

\* (mutant) the derived comparisons negate the wrong primitive
NegatedPrimitiveSwapped(op) ==
    CASE op = "Greater" -> "Less"
      [] op = "GreaterEq" -> "LessEq"
      [] op = "Ne" -> "Eq"

\* the primitive opcode a derived comparison negates
NegatedPrimitive(op) ==
    CASE op = "Greater" -> "LessEq"
      [] op = "GreaterEq" -> "Less"
      [] op = "Ne" -> "Eq"

FromBinOp(op) ==
    CASE op = "Less" -> <<"Less">>
      [] op = "LessEq" -> <<"LessEq">>
      [] op = "Greater" -> <<NegatedPrimitive(op), "Not">>
      [] op = "GreaterEq" -> <<NegatedPrimitive(op), "Not">>
      [] op = "Add" -> <<"Add">>
      [] op = "Sub" -> <<"Sub">>
      [] op = "Mul" -> <<"Mul">>
      [] op = "Div" -> <<"Div">>
      [] op = "BitAnd" -> <<"BitAnd">>
      [] op = "BitOr" -> <<"BitOr">>
      [] op = "BitXor" -> <<"Xor">>
      [] op = "Shr" -> <<"Shr">>
      [] op = "Shl" -> <<"Shl">>
      [] op = "Eq" -> <<"Eq">>
      [] op = "Ne" -> <<NegatedPrimitive(op), "Not">>
      [] op = "And" -> Unreachable
      [] op = "Or" -> Unreachable

(***************************************************************************)
(* The parser as a machine: a token stream is assembled, then handed to    *)
(* parse or parse_expr; a parsed binary expression may be lowered.         *)
(***************************************************************************)
NoResult == [fn |-> "none", rep |-> FALSE, st |-> "ok", stop |-> 0, eloc |-> 0,
             past |-> FALSE, v |-> NoExpr]
NoLowered == [op |-> "none", code |-> <<>>]

ParserInit == toks = <<>> /\ result = NoResult /\ lowered = NoLowered

\* the lexer delivers one more token
Push(t, max) ==
    /\ Len(toks) < max
    /\ toks' = Append(toks, t)
    /\ result' = NoResult
    /\ lowered' = NoLowered
    /\ UNCHANGED notParser

\* the source text ends one token earlier
DropLast ==
    /\ toks # <<>>
    /\ toks' = SubSeq(toks, 1, Len(toks) - 1)
    /\ result' = NoResult
    /\ lowered' = NoLowered
    /\ UNCHANGED notParser

\* the lexer delivers a whole program
Load(ts) ==
    /\ toks' = ts
    /\ result' = NoResult
    /\ lowered' = NoLowered
    /\ UNCHANGED notParser

RunParseExpr ==
    /\ result.fn = "none"
    /\ \E rep \in BOOLEAN : result' = parse_expr(Lexer(toks, rep))
    /\ UNCHANGED <<toks, lowered>>
    /\ UNCHANGED notParser

RunParse ==
    /\ result.fn = "none"
    /\ \E rep \in BOOLEAN : result' = parse(Lexer(toks, rep))
    /\ UNCHANGED <<toks, lowered>>
    /\ UNCHANGED notParser

\* the compiler converts the operator of a parsed binary expression
Lower ==
    /\ result.fn = "parse_expr" /\ result.st = "ok" /\ result.v.k = "Binary"
    /\ lowered' = [op |-> result.v.op, code |-> FromBinOp(result.v.op)]
    /\ UNCHANGED <<toks, result>>
    /\ UNCHANGED notParser

(***************************************************************************)
(* Runtime values: enum Value.  A value is its tag and its payload:        *)
(* n and s for a number (s is "" for the finite number n, "-0" for         *)
(* negative zero, else "nan", "inf" or "-inf"), s for a symbol, n for a    *)
(* boolean (1 = true), c the characters of a string, l the elements of a   *)
(* list, n the identity of a heap object (function, table, type,           *)
(* instance, mutable cell).                                                *)
(***************************************************************************)
V(tag, n, s, c, l) == [tag |-> tag, n |-> n, s |-> s, c |-> c, l |-> l]
\* nil()
nil == V("Nil", 0, "", <<>>, <<>>)
NumV(n) == V("Num", n, "", <<>>, <<>>)
NaN == V("Num", 0, "nan", <<>>, <<>>)
NegZero == V("Num", 0, "-0", <<>>, <<>>)
BoolV(b) == V("Bool", IF b THEN 1 ELSE 0, "", <<>>, <<>>)
StrV(chars) == V("Str", 0, "", chars, <<>>)
SymV(name) == V("Sym", 0, name, <<>>, <<>>)
ListV(elems) == V("List", 0, "", <<>>, elems)
MutableV(id) == V("Mutable", id, "", <<>>, <<>>)

\* Option<T>: None or Some(x)
None == <<>>
Some(x) == <<x>>

(***************************************************************************)
(* The persistent list.  h is the node store (GcRef<Node> allocations in   *)
(* allocation order), a Link is 0 (None) or a node's index, a List is its  *)
(* head link.                                                              *)
(***************************************************************************)
Node(elem, nxt) == [elem |-> elem, next |-> nxt]

\* List::new
List_new == 0

is_empty(xs) == xs = 0

\* (mutant) the new node is not linked to the receiver's nodes
prepend_unlinked(h, xs, elem) ==
    [heap |-> Append(h, Node(elem, 0)), head |-> Len(h) + 1]

\* (mutant) push in place: the receiver's head node is overwritten with the
\* new element and linked to a copy of what it held
prepend_in_place(h, xs, elem) ==
    IF xs = 0 THEN [heap |-> Append(h, Node(elem, 0)), head |-> Len(h) + 1]
    ELSE [heap |-> [Append(h, h[xs]) EXCEPT ![xs] = Node(elem, Len(h) + 1)],
          head |-> xs]

\* GcRef::new(Node { elem, next: self.head.clone() })
prepend(h, xs, elem) ==
    [heap |-> Append(h, Node(elem, xs)), head |-> Len(h) + 1]

tail(h, xs) == IF xs = 0 THEN 0 ELSE h[xs].next

head(h, xs) == IF xs = 0 THEN None ELSE Some(h[xs].elem)

\* Option::unwrap_or_else(nil)
unwrap_or_nil(o) == IF o = None THEN nil ELSE o[1]

\* (mutant) an index past the end gives the last element instead of nil
RECURSIVE index_clamped(_, _, _)
index_clamped(h, xs, i) ==
    IF i = 0 THEN unwrap_or_nil(head(h, xs))
    ELSE LET t == tail(h, xs) IN
         IF is_empty(t) THEN unwrap_or_nil(head(h, xs))
         ELSE index_clamped(h, t, i - 1)

RECURSIVE index(_, _, _)
index(h, xs, i) ==
    IF i = 0 THEN unwrap_or_nil(head(h, xs))
    ELSE LET t == tail(h, xs) IN
         IF is_empty(t) THEN nil ELSE index(h, t, i - 1)

\* while xs != None { xs = xs.next; count += 1 }
RECURSIVE len_loop(_, _, _)
len_loop(h, xs, count) ==
    IF xs = 0 THEN count ELSE len_loop(h, h[xs].next, count + 1)

len(h, xs) == len_loop(h, xs, 0)

\* while head.head().is_some() { vec.push(head.head().unwrap()); head = head.tail() }
RECURSIVE to_vec_loop(_, _, _)
to_vec_loop(h, xs, vec) ==
    IF head(h, xs) = None THEN vec
    ELSE to_vec_loop(h, tail(h, xs), Append(vec, head(h, xs)[1]))

to_vec(h, xs) == to_vec_loop(h, xs, <<>>)

\* Iter::next, called until it returns None
RECURSIVE iter_collect(_, _, _)
iter_collect(h, nxt, out) ==
    IF nxt = 0 THEN out
    ELSE iter_collect(h, h[nxt].next, Append(out, h[nxt].elem))

\* List::iter: a fresh Iter { next: self.head }
iter(h, xs) == iter_collect(h, xs, <<>>)

\* while let Some(elem) = node { list = list.prepend(elem.elem); node = elem.next }
RECURSIVE rev_loop(_, _, _)
rev_loop(h, node, acc) ==
    IF node = 0 THEN [heap |-> h, head |-> acc]
    ELSE LET r == prepend(h, acc, h[node].elem) IN
         rev_loop(r.heap, h[node].next, r.head)

\* (mutant) the traversal starts one node late
rev_from_second(h, xs) == rev_loop(h, tail(h, xs), List_new)

rev(h, xs) == rev_loop(h, xs, List_new)

\* impl FromIterator<Value> for List: prepend every item in turn
RECURSIVE from_iter_loop(_, _, _)
from_iter_loop(h, items_, acc) ==
    IF items_ = <<>> THEN [heap |-> h, head |-> acc]
    ELSE LET r == prepend(h, acc, Head(items_)) IN
         from_iter_loop(r.heap, Tail(items_), r.head)

from_iter(h, items_) == from_iter_loop(h, items_, List_new)

(***************************************************************************)
(* Spec (lists): a program holds two list variables and applies the List   *)
(* operations to them; results that are lists are stored back.             *)
(***************************************************************************)
MaxNodes == 4
\* the program's list variables: two, so that lists can share tails
Slots == {"xs", "ys"}
\* the element stored by the k-th prepend of a run: the number k, so that
\* the elements of a list are pairwise distinct and their order shows
ListElems == {NumV(Len(heap) + 1)}

\* a held list value and the elements it denoted when it was obtained
Held(h, xs) == [head |-> xs, snap |-> to_vec(h, xs)]

NoOp == [op |-> "none", recv |-> 0, before |-> <<>>, x |-> nil, n |-> 0,
         res |-> 0, val |-> nil, vec |-> <<>>]

ListInit ==
    /\ heap = <<>>
    /\ lists = [j \in Slots |-> Held(<<>>, List_new)]
    /\ lastOp = NoOp

Op(name, i) ==
    [NoOp EXCEPT !.op = name, !.recv = lists[i].head,
                 !.before = to_vec(heap, lists[i].head)]

\* lists[j] = lists[i].prepend(x)
Prepend(i, j, x) ==
    /\ Len(heap) < MaxNodes
    /\ LET r == prepend(heap, lists[i].head, x) IN
       /\ heap' = r.heap
       /\ lists' = [lists EXCEPT ![j] = Held(r.heap, r.head)]
       /\ lastOp' = [Op("prepend", i) EXCEPT !.x = x, !.res = r.head]
    /\ UNCHANGED notList

\* lists[j] = lists[i].tail()
TailOp(i, j) ==
    /\ LET r == tail(heap, lists[i].head) IN
       /\ lists' = [lists EXCEPT ![j] = Held(heap, r)]
       /\ lastOp' = [Op("tail", i) EXCEPT !.res = r]
    /\ UNCHANGED heap
    /\ UNCHANGED notList

\* lists[j] = lists[i].rev()
RevOp(i, j) ==
    /\ Len(heap) + len(heap, lists[i].head) <= MaxNodes
    /\ LET r == rev(heap, lists[i].head) IN
       /\ heap' = r.heap
       /\ lists' = [lists EXCEPT ![j] = Held(r.heap, r.head)]
       /\ lastOp' = [Op("rev", i) EXCEPT !.res = r.head]
    /\ UNCHANGED notList

\* lists[i].head()
HeadOp(i) ==
    /\ lastOp' = [Op("head", i) EXCEPT !.vec = head(heap, lists[i].head)]
    /\ UNCHANGED <<heap, lists>>
    /\ UNCHANGED notList

\* lists[i].index(n)
IndexOp(i, n) ==
    /\ n <= len(heap, lists[i].head) + 1
    /\ lastOp' = [Op("index", i) EXCEPT !.n = n,
                                        !.val = index(heap, lists[i].head, n)]
    /\ UNCHANGED <<heap, lists>>
    /\ UNCHANGED notList

\* lists[i].len()
LenOp(i) ==
    /\ lastOp' = [Op("len", i) EXCEPT !.n = len(heap, lists[i].head)]
    /\ UNCHANGED <<heap, lists>>
    /\ UNCHANGED notList

\* lists[i].to_vec()
ToVecOp(i) ==
    /\ lastOp' = [Op("to_vec", i) EXCEPT !.vec = to_vec(heap, lists[i].head)]
    /\ UNCHANGED <<heap, lists>>
    /\ UNCHANGED notList

\* lists[i].iter().collect()
IterOp(i) ==
    /\ lastOp' = [Op("iter", i) EXCEPT !.vec = iter(heap, lists[i].head)]
    /\ UNCHANGED <<heap, lists>>
    /\ UNCHANGED notList

(***************************************************************************)
(* The mutable cell.  sl is the store of boxed values (Box::into_raw       *)
(* allocations in allocation order, never freed); a Mutable is the index   *)
(* of its box (ptr).                                                       *)
(***************************************************************************)
\* Mutable::new: ptr: Box::into_raw(Box::new(value))
Mutable_new(sl, value) == [slots |-> Append(sl, value), ptr |-> Len(sl) + 1]

\* Mutable::get: unsafe { &*self.ptr }.clone()
Mutable_get(sl, ptr) == sl[ptr]

\* Mutable::set: unsafe { *self.ptr = value }
Mutable_set(sl, ptr, value) == [sl EXCEPT ![ptr] = value]

Raise(msg) == [tag |-> "Err", n |-> 0, s |-> msg, c |-> <<>>, l |-> <<>>]
IsErr(r) == r.tag = "Err"

(***************************************************************************)
(* Rendering of values (impl Display for Value) and the failures that      *)
(* carry renderings.                                                       *)
(***************************************************************************)
\* a value of a tag whose payload is a heap object: Fn (n is its arity),
\* Type and Instance (s is the type's name), Table
ObjV(tag, n, name) == V(tag, n, name, <<>>, <<>>)

\* f64::to_string for the numbers of the model
f64_to_string(x) ==
    CASE x.s = "nan" -> "NaN"
      [] x.s = "inf" -> "inf"
      [] x.s = "-inf" -> "-inf"
      [] x.s = "-0" -> "-0"
      [] OTHER -> ToString(x.n)

RECURSIVE Join(_)
Join(chars) == IF chars = <<>> THEN "" ELSE Head(chars) \o Join(Tail(chars))

RECURSIVE Display(_, _)
\* impl Display for List: the elements separated by ", "
RECURSIVE List_Display_loop(_, _)
List_Display_loop(sl, xs) ==
    IF xs = <<>> THEN ""
    ELSE IF Len(xs) = 1 THEN Display(sl, xs[1])
    ELSE Display(sl, xs[1]) \o ", " \o List_Display_loop(sl, Tail(xs))

\* impl Display for Value; sl is the store the cells live in
Display(sl, v) ==
    CASE v.tag = "Fn" -> "<fun(" \o ToString(v.n) \o ")>"
      [] v.tag = "Nil" -> "nil"
      [] v.tag = "List" -> "[" \o List_Display_loop(sl, v.l) \o "]"
      [] v.tag = "Str" -> "\"" \o Join(v.c) \o "\""
      [] v.tag = "Sym" -> v.s
      [] v.tag = "Num" -> f64_to_string(v)
      [] v.tag = "Type" -> "<type(" \o v.s \o ")>"
      [] v.tag = "Instance" -> "<instance(" \o v.s \o ")>"
      [] v.tag = "Table" -> "{}"
      [] v.tag = "Mutable" -> "Mutable<" \o Display(sl, Mutable_get(sl, v.n)) \o ">"
      [] v.tag = "Bool" -> IF v.n = 1 THEN "true" ELSE "false"

\* raise!(fmt, values..): the failure keeps the format and the renderings
RaiseWith(msg, shown) ==
    [tag |-> "Err", n |-> 0, s |-> msg, c |-> shown, l |-> <<>>]

\* a panic of the running thread: the call does not return
Panic(msg) == [tag |-> "Panic", n |-> 0, s |-> msg, c |-> <<>>, l |-> <<>>]
IsPanic(r) == r.tag = "Panic"

\* args[i] on a Vec: the index is checked, an index past the end panics
OutOfBounds(argv, i) == i >= Len(argv)

\* the failure of impl_get!: the stringified target type and the value found
Expected(sl, to, e) == RaiseWith("expected {}, found {}", <<to, Display(sl, e)>>)

\* (mutant) extraction copies the box: the extracted cell has value semantics
TryGet_Mutable_by_value(sl, v) ==
    IF v.tag = "Mutable"
    THEN LET m == Mutable_new(sl, Mutable_get(sl, v.n)) IN
         [slots |-> m.slots, ok |-> TRUE, ptr |-> m.ptr]
    ELSE [slots |-> sl, ok |-> FALSE, ptr |-> 0]

\* impl_get!(Mutable: Mutable(x) => x.deref().to_owned()): the derived Clone
\* of struct Mutable copies the raw pointer
TryGet_Mutable(sl, v) ==
    IF v.tag = "Mutable"
    THEN [slots |-> sl, ok |-> TRUE, ptr |-> v.n]
    ELSE [slots |-> sl, ok |-> FALSE, ptr |-> 0]

\* the bridge methods: (machine, args) -> InterpretResult<Value>
init(sl, argv) ==
    LET m == Mutable_new(sl, nil) IN [slots |-> m.slots, res |-> MutableV(m.ptr)]

set(sl, argv) ==
    IF OutOfBounds(argv, 0) THEN [slots |-> sl, res |-> Panic("index out of bounds")]
    ELSE LET g == TryGet_Mutable(sl, argv[1]) IN
    IF ~g.ok THEN [slots |-> g.slots, res |-> Expected(sl, "Mutable", argv[1])]
    ELSE IF OutOfBounds(argv, 1)
    THEN [slots |-> g.slots, res |-> Panic("index out of bounds")]
    ELSE [slots |-> Mutable_set(g.slots, g.ptr, argv[2]), res |-> nil]

get(sl, argv) ==
    IF OutOfBounds(argv, 0) THEN [slots |-> sl, res |-> Panic("index out of bounds")]
    ELSE LET g == TryGet_Mutable(sl, argv[1]) IN
    IF ~g.ok THEN [slots |-> g.slots, res |-> Expected(sl, "Mutable", argv[1])]
    ELSE [slots |-> g.slots, res |-> Mutable_get(g.slots, g.ptr)]

(***************************************************************************)
(* SpecMut: a program creating cells, cloning cell values and calling the  *)
(* bridge set and get on them.  handles are the cell values the program    *)
(* holds, each with the number of the init call that made it; written is   *)
(* the value given to the most recent set on each cell and the handle it   *)
(* went through (nil and 0 before any).                                    *)
(***************************************************************************)
MaxCells == 2
MaxHandles == 3

\* the values a program stores: immediates, a string, and the cells it holds
StoredValues == {nil, NumV(1), StrV(<<"a">>)} \cup {handles[i].val : i \in DOMAIN handles}

NoGot == [op |-> "none", h |-> 0, cell |-> 0, res |-> nil]

MutInit == slots = <<>> /\ handles = <<>> /\ written = <<>> /\ got = NoGot

InitOp ==
    /\ Len(written) < MaxCells /\ Len(handles) < MaxHandles
    /\ LET r == init(slots, <<>>) IN
       /\ slots' = r.slots
       /\ handles' = Append(handles, [val |-> r.res, cell |-> Len(written) + 1])
       /\ written' = Append(written, [val |-> nil, by |-> 0])
       /\ got' = [op |-> "init", h |-> Len(handles) + 1, cell |-> Len(written) + 1,
                  res |-> r.res]
    /\ UNCHANGED notMut

\* Value::clone: Mutable(t) => Mutable(GcRef::clone(t))
CloneOp(i) ==
    /\ Len(handles) < MaxHandles
    /\ handles' = Append(handles, handles[i])
    /\ got' = [op |-> "clone", h |-> Len(handles) + 1, cell |-> handles[i].cell,
               res |-> handles[i].val]
    /\ UNCHANGED <<slots, written>>
    /\ UNCHANGED notMut

SetOp(i, v) ==
    /\ LET r == set(slots, <<handles[i].val, v>>) IN
       /\ slots' = r.slots
       /\ written' = [written EXCEPT ![handles[i].cell] = [val |-> v, by |-> i]]
       /\ got' = [op |-> "set", h |-> i, cell |-> handles[i].cell, res |-> r.res]
    /\ UNCHANGED handles
    /\ UNCHANGED notMut

GetOp(i) ==
    /\ LET r == get(slots, <<handles[i].val>>) IN
       /\ slots' = r.slots
       /\ got' = [op |-> "get", h |-> i, cell |-> handles[i].cell, res |-> r.res]
    /\ UNCHANGED <<handles, written>>
    /\ UNCHANGED notMut

\* the receiver handed to get is not a cell
GetNonCell(v) ==
    /\ LET r == get(slots, <<v>>) IN
       /\ slots' = r.slots
       /\ got' = [op |-> "get", h |-> 0, cell |-> 0, res |-> r.res]
    /\ UNCHANGED <<handles, written>>
    /\ UNCHANGED notMut

NextMut ==
    \/ InitOp
    \/ \E i \in DOMAIN handles : CloneOp(i)
    \/ \E i \in DOMAIN handles : \E v \in StoredValues : SetOp(i, v)
    \/ \E i \in DOMAIN handles : GetOp(i)
    \/ \E v \in {nil, NumV(1)} : GetNonCell(v)

(***************************************************************************)
(* Equality of runtime values: #[derive(PartialEq)] on enum Value, List,   *)
(* Node and Mutable, and the arithmetic that produces numbers.             *)
(***************************************************************************)
IsNaN(x) == x.s = "nan"
IsInf(x) == x.s \in {"inf", "-inf"}
IsZero(x) == x.s = "-0" \/ (x.s = "" /\ x.n = 0)
Negative(x) == x.s \in {"-0", "-inf"} \/ (x.s = "" /\ x.n < 0)
Inf(neg) == V("Num", 0, IF neg THEN "-inf" ELSE "inf", <<>>, <<>>)
Zero(neg) == IF neg THEN NegZero ELSE NumV(0)
Abs(n) == IF n < 0 THEN 0 - n ELSE n

\* f64 == f64: a NaN equals nothing, the two zeros are equal
f64_eq(x, y) ==
    IF IsNaN(x) \/ IsNaN(y) THEN FALSE
    ELSE IF IsZero(x) /\ IsZero(y) THEN TRUE
    ELSE x.n = y.n /\ x.s = y.s

\* the quotient x / y is a value of the number domain modelled
Exact(x, y) ==
    x.s = "" /\ y.s = "" /\ y.n # 0 => Abs(x.n) % Abs(y.n) = 0

\* f64 / f64
f64_div(x, y) ==
    LET neg == Negative(x) # Negative(y) IN
    IF IsNaN(x) \/ IsNaN(y) THEN NaN
    ELSE IF IsInf(x) THEN (IF IsInf(y) THEN NaN ELSE Inf(neg))
    ELSE IF IsInf(y) THEN Zero(neg)
    ELSE IF IsZero(y) THEN (IF IsZero(x) THEN NaN ELSE Inf(neg))
    ELSE IF IsZero(x) THEN Zero(neg)
    ELSE NumV((IF neg THEN -1 ELSE 1) * (Abs(x.n) \div Abs(y.n)))

\* -f64
f64_neg(x) ==
    IF IsNaN(x) THEN NaN
    ELSE IF IsInf(x) THEN Inf(~Negative(x))
    ELSE IF IsZero(x) THEN Zero(~Negative(x))
    ELSE NumV(0 - x.n)

\* impl Div for Value
Div(sl, a, b) ==
    IF a.tag = "Num" /\ b.tag = "Num" THEN f64_div(a, b)
    ELSE RaiseWith("Can't apply / operator between {} and {}",
                   <<Display(sl, a), Display(sl, b)>>)

\* impl Neg for Value
Neg(sl, a) ==
    IF a.tag = "Num" THEN f64_neg(a)
    ELSE RaiseWith("Can't apply unary - operator on {}", <<Display(sl, a)>>)

\* GcRef<String> == GcRef<String>: the referenced strings are compared
GcRef_String_eq(a, b) == a.c = b.c

\* Symbol == Symbol: the interned keys are compared
Symbol_eq(a, b) == a.s = b.s

\* derived on struct Mutable: the raw pointers are compared
Mutable_eq(a, b) == a.n = b.n

\* (mutant) equality coerces through truthiness when the tags differ
RECURSIVE ValueEq_coercing(_, _)
ValueEq_coercing(a, b) ==
    IF a.tag # b.tag
    THEN (a.tag \in {"Nil", "Bool"} /\ b.tag \in {"Nil", "Bool"} /\ a.n = b.n)
    ELSE CASE a.tag = "Num" -> f64_eq(a, b)
           [] a.tag = "Str" -> GcRef_String_eq(a, b)
           [] a.tag = "Sym" -> Symbol_eq(a, b)
           [] a.tag = "Bool" -> a.n = b.n
           [] a.tag = "List" ->
                /\ Len(a.l) = Len(b.l)
                /\ \A i \in DOMAIN a.l : ValueEq_coercing(a.l[i], b.l[i])
           [] a.tag = "Mutable" -> Mutable_eq(a, b)
           [] a.tag = "Nil" -> TRUE

\* #[derive(PartialEq)] enum Value: equal tags and equal payloads; for a List
\* the derived equality of Option<GcRef<Node>> and Node { elem, next }
\* compares the elements pairwise down both chains
RECURSIVE ValueEq(_, _)
ValueEq(a, b) ==
    IF a.tag # b.tag THEN FALSE
    ELSE CASE a.tag = "Num" -> f64_eq(a, b)
           [] a.tag = "Str" -> GcRef_String_eq(a, b)
           [] a.tag = "Sym" -> Symbol_eq(a, b)
           [] a.tag = "Bool" -> a.n = b.n
           [] a.tag = "List" ->
                /\ Len(a.l) = Len(b.l)
                /\ \A i \in DOMAIN a.l : ValueEq(a.l[i], b.l[i])
           [] a.tag = "Mutable" -> Mutable_eq(a, b)
           [] a.tag = "Nil" -> TRUE

(***************************************************************************)
(* SpecVal: two operands built from literals, division, negation, clone    *)
(* and cons, then compared.                                                *)
(***************************************************************************)
MaxElems == 1

ValLits == {nil, BoolV(FALSE), BoolV(TRUE), NumV(0), NumV(1), StrV(<<>>),
            StrV(<<"a">>), SymV("a"), ListV(<<>>), MutableV(1), MutableV(2)}

NoOut == [op |-> "none", a |-> nil, b |-> nil, ab |-> FALSE, ba |-> FALSE,
          aa |-> FALSE, bb |-> FALSE]

ValInit == va = nil /\ vb = nil /\ vout = NoOut

LoadA(v) ==
    /\ va' = v /\ vout' = NoOut
    /\ UNCHANGED vb
    /\ UNCHANGED notVal

\* Value::clone, the operands change places
SwapOp ==
    /\ va' = vb /\ vb' = va /\ vout' = NoOut
    /\ UNCHANGED notVal

CloneA ==
    /\ vb' = va /\ vout' = NoOut
    /\ UNCHANGED va
    /\ UNCHANGED notVal

DivOp ==
    /\ va.tag = "Num" /\ vb.tag = "Num" /\ Exact(va, vb)
    /\ va' = Div(slots, va, vb) /\ vout' = NoOut
    /\ UNCHANGED vb
    /\ UNCHANGED notVal

NegOp ==
    /\ va.tag = "Num"
    /\ va' = Neg(slots, va) /\ vout' = NoOut
    /\ UNCHANGED vb
    /\ UNCHANGED notVal

\* List::prepend of the scalar vb to the list va
ConsOp ==
    /\ va.tag = "List" /\ vb.tag # "List" /\ Len(va.l) < MaxElems
    /\ va' = ListV(<<vb>> \o va.l) /\ vout' = NoOut
    /\ UNCHANGED vb
    /\ UNCHANGED notVal

EqOp ==
    /\ vout.op = "none"
    /\ vout' = [op |-> "eq", a |-> va, b |-> vb,
                ab |-> ValueEq(va, vb), ba |-> ValueEq(vb, va),
                aa |-> ValueEq(va, va), bb |-> ValueEq(vb, vb)]
    /\ UNCHANGED <<va, vb>>
    /\ UNCHANGED notVal

NextVal ==
    \/ \E v \in ValLits : LoadA(v)
    \/ SwapOp
    \/ CloneA
    \/ DivOp
    \/ NegOp
    \/ ConsOp
    \/ EqOp

(***************************************************************************)
(* The string split bridge.  A string is the sequence of its characters.   *)
(***************************************************************************)
IsWhite(ch) == ch = " "

\* str::trim: leading and trailing white space removed
RECURSIVE trim_start(_)
trim_start(s) ==
    IF s # <<>> /\ IsWhite(s[1]) THEN trim_start(Tail(s)) ELSE s

RECURSIVE trim_end(_)
trim_end(s) ==
    IF s # <<>> /\ IsWhite(s[Len(s)]) THEN trim_end(SubSeq(s, 1, Len(s) - 1)) ELSE s

trim(s) == trim_end(trim_start(s))

starts_with(s, p) == Len(s) >= Len(p) /\ SubSeq(s, 1, Len(p)) = p

\* str::split with a non-empty string pattern: the text between the
\* non-overlapping matches found from the left, the text before the first
\* and after the last included
RECURSIVE split_at(_, _, _, _)
split_at(s, p, cur, out) ==
    IF s = <<>> THEN Append(out, cur)
    ELSE IF starts_with(s, p)
         THEN split_at(SubSeq(s, Len(p) + 1, Len(s)), p, <<>>, Append(out, cur))
         ELSE split_at(Tail(s), p, Append(cur, s[1]), out)

\* str::split: the empty pattern matches at every character boundary
str_split(s, p) ==
    IF p = <<>> THEN <<(<<>>)>> \o [i \in 1..Len(s) |-> <<s[i]>>] \o <<(<<>>)>>
    ELSE split_at(s, p, <<>>, <<>>)

\* .map(|x| Value::Str(GcRef::new(x.to_string())))
RECURSIVE map_Str(_)
map_Str(segs) ==
    IF segs = <<>> THEN <<>> ELSE <<StrV(segs[1])>> \o map_Str(Tail(segs))

\* .filter(|x| get(x).unwrap() != "")
RECURSIVE filter_non_empty(_)
filter_non_empty(vs) ==
    IF vs = <<>> THEN <<>>
    ELSE (IF vs[1].c # <<>> THEN <<vs[1]>> ELSE <<>>) \o filter_non_empty(Tail(vs))

\* impl_get!(String: Str(s) => s.to_string())
TryGet_String(v) ==
    IF v.tag = "Str" THEN [ok |-> TRUE, s |-> v.c] ELSE [ok |-> FALSE, s |-> <<>>]

\* Value::List(xs) as the sequence of the elements of xs
ListValue(h, xs) == ListV(to_vec(h, xs))

\* (mutant) the collected list is returned without the final rev()
split_no_rev(sl, argv) ==
    LET string == TryGet_String(argv[1])
        pt == TryGet_String(argv[2]) IN
    IF ~string.ok \/ ~pt.ok THEN Raise("expected String")
    ELSE LET vs == filter_non_empty(map_Str(str_split(trim(string.s), pt.s)))
             arr == from_iter(<<>>, vs)
         IN ListValue(arr.heap, arr.head)

\* the bridge method split
split(sl, argv) ==
    IF OutOfBounds(argv, 0) THEN Panic("index out of bounds")
    ELSE LET string == TryGet_String(argv[1]) IN
    IF ~string.ok THEN Expected(sl, "String", argv[1])
    ELSE IF OutOfBounds(argv, 1) THEN Panic("index out of bounds")
    ELSE LET pt == TryGet_String(argv[2]) IN
    IF ~pt.ok THEN Expected(sl, "String", argv[2])
    ELSE LET vs == filter_non_empty(map_Str(str_split(trim(string.s), pt.s)))
             collected == from_iter(<<>>, vs)
             arr == rev(collected.heap, collected.head)
         IN ListValue(arr.heap, arr.head)

\* str::contains with a string pattern
str_contains(s, p) ==
    \E i \in 0..(Len(s) - Len(p)) : SubSeq(s, i + 1, i + Len(p)) = p

\* the bridge method contains
contains(sl, argv) ==
    IF OutOfBounds(argv, 0) THEN Panic("index out of bounds")
    ELSE LET string == TryGet_String(argv[1]) IN
    IF ~string.ok THEN Expected(sl, "String", argv[1])
    ELSE IF OutOfBounds(argv, 1) THEN Panic("index out of bounds")
    ELSE LET substr == TryGet_String(argv[2]) IN
    IF ~substr.ok THEN Expected(sl, "String", argv[2])
    ELSE BoolV(str_contains(string.s, substr.s))

\* str::replace: every non-overlapping match found from the left is replaced
RECURSIVE replace_at(_, _, _)
replace_at(s, from, to) ==
    IF s = <<>> THEN <<>>
    ELSE IF starts_with(s, from)
         THEN to \o replace_at(SubSeq(s, Len(from) + 1, Len(s)), from, to)
         ELSE <<s[1]>> \o replace_at(Tail(s), from, to)

\* the empty pattern matches at every character boundary
RECURSIVE replace_empty(_, _)
replace_empty(s, to) ==
    IF s = <<>> THEN to ELSE to \o <<s[1]>> \o replace_empty(Tail(s), to)

str_replace(s, from, to) ==
    IF from = <<>> THEN replace_empty(s, to) ELSE replace_at(s, from, to)

\* the bridge method replace
replace(sl, argv) ==
    IF OutOfBounds(argv, 0) THEN Panic("index out of bounds")
    ELSE LET string == TryGet_String(argv[1]) IN
    IF ~string.ok THEN Expected(sl, "String", argv[1])
    ELSE IF OutOfBounds(argv, 1) THEN Panic("index out of bounds")
    ELSE LET from == TryGet_String(argv[2]) IN
    IF ~from.ok THEN Expected(sl, "String", argv[2])
    ELSE IF OutOfBounds(argv, 2) THEN Panic("index out of bounds")
    ELSE LET to == TryGet_String(argv[3]) IN
    IF ~to.ok THEN Expected(sl, "String", argv[3])
    ELSE StrV(str_replace(string.s, from.s, to.s))

(***************************************************************************)
(* SpecStr: the subject and the separator are typed character by           *)
(* character, or are the documented example, and split is called.          *)
(***************************************************************************)
MaxSubject == 4
MaxPat == 2

Chars == {"a", ",", " "}
ExampleSubject == <<"a", ",", "b", ",", ",", "c">>
ExamplePat == <<",">>

NoSplit == [op |-> "none", subject |-> <<>>, pat |-> <<>>, res |-> nil]

StrInit == subject = <<>> /\ pat = <<>> /\ splitOut = NoSplit

PushSubject(ch) ==
    /\ Len(subject) < MaxSubject
    /\ subject' = Append(subject, ch) /\ splitOut' = NoSplit
    /\ UNCHANGED pat
    /\ UNCHANGED notStr

PushPat(ch) ==
    /\ Len(pat) < MaxPat
    /\ pat' = Append(pat, ch) /\ splitOut' = NoSplit
    /\ UNCHANGED subject
    /\ UNCHANGED notStr

LoadExample ==
    /\ subject' = ExampleSubject /\ pat' = ExamplePat /\ splitOut' = NoSplit
    /\ UNCHANGED notStr

ClearStr ==
    /\ subject' = <<>> /\ pat' = <<>> /\ splitOut' = NoSplit
    /\ UNCHANGED notStr

SplitOp ==
    /\ splitOut.op = "none"
    /\ splitOut' = [op |-> "split", subject |-> subject, pat |-> pat,
                    res |-> split(slots, <<StrV(subject), StrV(pat)>>)]
    /\ UNCHANGED <<subject, pat>>
    /\ UNCHANGED notStr

\* the separator handed to split is not a string
SplitNonString(v) ==
    /\ splitOut.op = "none"
    /\ splitOut' = [op |-> "split", subject |-> subject, pat |-> <<>>,
                    res |-> split(slots, <<StrV(subject), v>>)]
    /\ UNCHANGED <<subject, pat>>
    /\ UNCHANGED notStr

NextStr ==
    \/ \E ch \in Chars : PushSubject(ch)
    \/ \E ch \in Chars : PushPat(ch)
    \/ LoadExample
    \/ ClearStr
    \/ SplitOp
    \/ \E v \in {nil, NumV(1)} : SplitNonString(v)


InitAll == ParserInit /\ ListInit /\ MutInit /\ ValInit /\ StrInit

Next ==
    \/ \E i, j \in Slots, x \in ListElems : Prepend(i, j, x)
    \/ \E i, j \in Slots : TailOp(i, j)
    \/ \E i, j \in Slots : RevOp(i, j)
    \/ \E i \in Slots : HeadOp(i)
    \/ \E i \in Slots, n \in 0..(MaxNodes + 1) : IndexOp(i, n)
    \/ \E i \in Slots : LenOp(i)
    \/ \E i \in Slots : ToVecOp(i)
    \/ \E i \in Slots : IterOp(i)

Spec == InitAll /\ [][Next]_vars

SpecMut == InitAll /\ [][NextMut]_vars

SpecVal == InitAll /\ [][NextVal]_vars

SpecStr == InitAll /\ [][NextStr]_vars


(***************************************************************************)
(* SpecPrec: streams that are one expression of literals, variables,       *)
(* prefix and binary operators, parsed by parse_expr and then lowered.     *)
(***************************************************************************)
MaxPrecToks == 5

\* the i-th operand of a stream: the literal i or the i-th variable a, b, c, ..
VarName(i) == IF i <= 3 THEN <<"a", "b", "c">>[i] ELSE "v" \o ToString(i)
Atoms(i) == {Tok("Num", ToString(i)), Tok("Name", VarName(i))}
NumOperands == Cardinality({i \in DOMAIN toks : toks[i].t \in {"Num", "Name"}})
AtomKinds == {"Num", "Name"}
PrecBinToks == BinOps \cup {"Cons"}
PrecPrefixToks == {"Sub", "Not"}

EndsInOperand == toks # <<>> /\ toks[Len(toks)].t \in AtomKinds

PushOperand ==
    /\ ~EndsInOperand
    /\ \E t \in Atoms(NumOperands + 1) \cup {T(o) : o \in PrecPrefixToks} :
          Push(t, MaxPrecToks)

PushOperator ==
    /\ EndsInOperand
    /\ \E o \in PrecBinToks : Push(T(o), MaxPrecToks)

NextPrec ==
    \/ PushOperand
    \/ PushOperator
    \/ DropLast
    \/ RunParseExpr
    \/ Lower

SpecPrec == InitAll /\ [][NextPrec]_vars

(***************************************************************************)
(* C1: precedence.                                                         *)
(***************************************************************************)
\* the documented precedence chain, loosest (1) to tightest (9)
Rank(op) ==
    CASE op = "Or" -> 1
      [] op = "And" -> 2
      [] op \in {"Eq", "Ne"} -> 3
      [] op \in {"Less", "LessEq", "Greater", "GreaterEq"} -> 4
      [] op \in {"BitOr", "BitAnd", "BitXor", "Shr", "Shl"} -> 6
      [] op \in {"Add", "Sub"} -> 7
      [] op \in {"Mul", "Div"} -> 8

NodeRank(n) ==
    CASE n.k = "Binary" -> Rank(n.op)
      [] n.k = "Cons" -> 5
      [] n.k = "UnOp" -> 9
      [] OTHER -> 10

\* no operator has an operator of a looser level as its operand
RECURSIVE PrecOK(_)
PrecOK(n) ==
    CASE n.k = "Binary" ->
            /\ NodeRank(n.left) >= NodeRank(n) /\ NodeRank(n.right) >= NodeRank(n)
            /\ PrecOK(n.left) /\ PrecOK(n.right)
      [] n.k = "Cons" ->
            /\ NodeRank(n.head) >= NodeRank(n) /\ NodeRank(n.tail) >= NodeRank(n)
            /\ PrecOK(n.head) /\ PrecOK(n.tail)
      [] n.k = "UnOp" -> NodeRank(n.right) >= NodeRank(n) /\ PrecOK(n.right)
      [] OTHER -> TRUE

\* the tokens of an operator tree, read left to right
RECURSIVE Flatten(_)
Flatten(n) ==
    CASE n.k = "Binary" -> Flatten(n.left) \o <<T(n.op)>> \o Flatten(n.right)
      [] n.k = "Cons" -> Flatten(n.head) \o <<T("Cons")>> \o Flatten(n.tail)
      [] n.k = "UnOp" ->
            <<T(IF n.op = "Neg" THEN "Sub" ELSE "Not")>> \o Flatten(n.right)
      [] n.k = "Lit" -> <<Tok(n.lit, n.v)>>
      [] n.k = "Var" -> <<Tok("Name", n.v)>>

\* an operator tree without its source locations
RECURSIVE Shape(_)
Shape(n) ==
    CASE n.k = "Binary" -> <<n.op, Shape(n.left), Shape(n.right)>>
      [] n.k = "Cons" -> <<"Cons", Shape(n.head), Shape(n.tail)>>
      [] n.k = "UnOp" -> <<n.op, Shape(n.right)>>
      [] n.k = "Lit" -> <<"Lit", n.v>>
      [] n.k = "Var" -> <<"Var", n.v>>

Num(i) == Tok("Num", ToString(i))
\* 1 + 2 * 3
OnePlusTwoTimesThree == <<Num(1), T("Add"), Num(2), T("Mul"), Num(3)>>

\* C1: a complete operator expression parses to the tree over exactly its
\* tokens in which no operator has a looser-level operator as an operand, and
\* 1 + 2 * 3 parses to Binary(Add, Lit(1), Binary(Mul, Lit(2), Lit(3))).
C1_Precedence ==
    (result.fn = "parse_expr" /\ EndsInOperand) =>
        /\ result.st = "ok"
        /\ Flatten(result.v) = toks
        /\ PrecOK(result.v)
        /\ (toks = OnePlusTwoTimesThree =>
               Shape(result.v) =
                   <<"Add", <<"Lit", "1">>, <<"Mul", <<"Lit", "2">>, <<"Lit", "3">>>> >>)

C1_Witness ==
    /\ result.fn = "parse_expr" /\ result.st = "ok"
    /\ toks = OnePlusTwoTimesThree
    /\ result.v.k = "Binary" /\ result.v.right.k = "Binary"

(***************************************************************************)
(* C2: the lowering table.                                                 *)
(***************************************************************************)
\* the table as claimed: four named entries, And/Or abort, every remaining
\* operator gives the single opcode of its own name
ClaimedCode(op) ==
    CASE op = "LessEq" -> <<"LessEq">>
      [] op = "Greater" -> <<"LessEq", "Not">>
      [] op = "GreaterEq" -> <<"Less", "Not">>
      [] op = "Ne" -> <<"Eq", "Not">>
      [] op \in {"And", "Or"} -> Unreachable
      [] OTHER -> <<op>>

\* C2 as stated: every conversion returns the claimed table's entry.
C2_Original ==
    lowered.op # "none" => lowered.code = ClaimedCode(lowered.op)

\* C2 amended: the table holds with one exception to "same-named": BitXor
\* gives the single opcode Xor.  Every operator but And/Or gives 1 or 2
\* opcodes; And and Or give no sequence (unreachable abort).
C2_LoweringTable ==
    lowered.op # "none" =>
        /\ lowered.code = IF lowered.op = "BitXor" THEN <<"Xor">>
                          ELSE ClaimedCode(lowered.op)
        /\ lowered.op \notin {"And", "Or"} =>
              (lowered.code # Unreachable /\ Len(lowered.code) \in {1, 2})
        /\ lowered.op \in {"And", "Or"} => lowered.code = Unreachable

\* a >= b lowered to [Less, Not]
C2_Witness ==
    /\ toks = <<Tok("Name", "a"), T("GreaterEq"), Tok("Name", "b")>>
    /\ lowered.op = "GreaterEq" /\ lowered.code = <<"Less", "Not">>

C4_Persistence ==
    /\ [](\A j \in Slots : to_vec(heap, lists[j].head) = lists[j].snap)
    /\ [][\A n \in DOMAIN heap : n \in DOMAIN heap' /\ heap'[n] = heap[n]]_vars

\* two held lists share a tail node and differ, after operations on both
C4_Witness ==
    /\ lists["xs"].head # 0 /\ lists["ys"].head # 0
    /\ lists["xs"].head # lists["ys"].head
    /\ tail(heap, lists["xs"].head) = tail(heap, lists["ys"].head)
    /\ tail(heap, lists["xs"].head) # 0
    /\ lastOp.op = "prepend" /\ Len(heap) = MaxNodes

RECURSIVE Reverse(_)
Reverse(sq) == IF sq = <<>> THEN <<>> ELSE Append(Reverse(Tail(sq)), Head(sq))

C6_Index ==
    lastOp.op = "index" =>
        /\ lastOp.n >= len(heap, lastOp.recv) => lastOp.val = nil
        /\ lastOp.n < len(heap, lastOp.recv) =>
              lastOp.val = to_vec(heap, lastOp.recv)[lastOp.n + 1]

\* an index past the end of a non-empty list, and one on the empty list
C6_Witness ==
    /\ lastOp.op = "index" /\ lastOp.n > len(heap, lastOp.recv)
    /\ lastOp.recv # 0

(***************************************************************************)
(* C7: mutable cell aliasing.                                              *)
(***************************************************************************)
\* C7: a cell made by init reads nil, and at every moment the bridge get
\* through every clone of a cell returns the value given to the most recent
\* set made through any clone of that cell (nil before the first set).
C7_CellAliasing ==
    /\ got.op = "init" => get(slots, <<got.res>>).res = nil
    /\ got.op = "get" /\ got.cell # 0 => got.res = written[got.cell].val
    /\ \A i \in DOMAIN handles :
          get(slots, <<handles[i].val>>).res = written[handles[i].cell].val

\* a get through one clone returned what was set through another clone
C7_Witness ==
    /\ got.op = "get" /\ got.cell # 0
    /\ written[got.cell].by \notin {0, got.h}
    /\ got.res = NumV(1)
    /\ Len(written) = MaxCells

(***************************************************************************)
(* C8: equality of runtime values.                                         *)
(***************************************************************************)
RECURSIVE HasNaN(_)
HasNaN(v) ==
    \/ v.tag = "Num" /\ IsNaN(v)
    \/ v.tag = "List" /\ \E i \in DOMAIN v.l : HasNaN(v.l[i])

RECURSIVE Concat(_)
Concat(vs) == IF vs = <<>> THEN <<>> ELSE vs[1].c \o Concat(Tail(vs))

\* the text left when every match of p, found from the left, is cut out
RECURSIVE CutAll(_, _)
CutAll(s, p) ==
    IF s = <<>> \/ p = <<>> THEN s
    ELSE IF starts_with(s, p) THEN CutAll(SubSeq(s, Len(p) + 1, Len(s)), p)
    ELSE <<s[1]>> \o CutAll(Tail(s), p)

Occurs(s, p) == \E i \in 1..(Len(s) - Len(p) + 1) : SubSeq(s, i, i + Len(p) - 1) = p

Strs(segs) == ListV([i \in DOMAIN segs |-> StrV(segs[i])])

\* the result is a list of non-empty strings free of the separator
Segments(o) ==
    /\ o.res.tag = "List"
    /\ \A i \in DOMAIN o.res.l :
          /\ o.res.l[i].tag = "Str" /\ o.res.l[i].c # <<>>
          /\ o.pat # <<>> => ~Occurs(o.res.l[i].c, o.pat)
          /\ o.pat = <<>> => Len(o.res.l[i].c) = 1

MaxErrToks == 3

ErrToks == {T("Def"), T("Let"), T("New"), T("Dot"), T("Lparen"), T("Rparen"),
            T("Lbrack"), T("Assign"), Tok("Name", "x")}

\* def (x) = x
DefWithoutName == <<T("Def"), T("Lparen"), Tok("Name", "x"), T("Rparen"),
                    T("Assign"), Tok("Name", "x")>>

\* brackets opened and not necessarily closed: the depth the parser nests to
MaxOpen == 2
NumOpen == Cardinality({i \in DOMAIN toks : toks[i].t \in {"Lparen", "Lbrack"}})

PushAny ==
    \E t \in ErrToks :
        /\ t.t \in {"Lparen", "Lbrack"} => NumOpen < MaxOpen
        /\ Push(t, MaxErrToks)

LoadDefWithoutName == Load(DefWithoutName)

NextErr ==
    \/ PushAny
    \/ DropLast
    \/ LoadDefWithoutName
    \/ RunParse
    \/ RunParseExpr

SpecErr == InitAll /\ [][NextErr]_vars

(***************************************************************************)
(* C10: failure mode of the parser.                                        *)
(***************************************************************************)
\* C10 as stated: for every token stream ended by the end-of-input marker,
\* parse and parse_expr return an AST or an error located at a token of the
\* stream; they never abort and never ask the lexer for a token after the
\* end marker; `def (x) = x` fails with a located error; a failure returns no
\* AST.
C10_Original ==
    result.fn # "none" =>
        /\ result.st \in {"ok", "err"}
        /\ ~result.past
        /\ result.st = "err" =>
              /\ result.eloc \in 1..(Len(toks) + 1)
              /\ result.v = NoExpr
        /\ toks = DefWithoutName => result.st = "err"

(***************************************************************************)
(* SpecType: type declarations.  The stream is `type Pair (` with up to    *)
(* MaxParams parameters `)`, then up to MaxItems body items taken from a   *)
(* menu of definitions, then `end`.                                        *)
(***************************************************************************)
MaxParams == 2
MaxItems == 2

Name(s) == Tok("Name", s)
ParamNames == <<"a", "b", "c", "d">>

\* p1 , p2 , .. , pk
RECURSIVE ParamToks(_)
ParamToks(k) ==
    IF k = 0 THEN <<>>
    ELSE IF k = 1 THEN <<Name(ParamNames[1])>>
    ELSE ParamToks(k - 1) \o <<T("Comma"), Name(ParamNames[k])>>

TypeHeader(k) ==
    <<T("Type"), Name("Pair"), T("Lparen")>> \o ParamToks(k) \o <<T("Rparen")>>

\* def init ( ) = 1
InitItem == <<T("Def"), Name("init"), T("Lparen"), T("Rparen"), T("Assign"),
              Tok("Num", "1")>>
\* def m ( this ) = this . a
MethodItem(m) == <<T("Def"), Name(m), T("Lparen"), Name("this"), T("Rparen"),
                   T("Assign"), Name("this"), T("Dot"), Name("a")>>
\* def set_a ( this , v ) = v
TwoArgItem == <<T("Def"), Name("set_a"), T("Lparen"), Name("this"), T("Comma"),
                Name("v"), T("Rparen"), T("Assign"), Name("v")>>
\* def get_a ( a ) = 1
NoThisItem == <<T("Def"), Name("get_a"), T("Lparen"), Name("a"), T("Rparen"),
                T("Assign"), Tok("Num", "1")>>
\* def f ( ) = 1
NoArgItem == <<T("Def"), Name("f"), T("Lparen"), T("Rparen"), T("Assign"),
               Tok("Num", "1")>>
\* def x = 1
ValueItem == <<T("Def"), Name("x"), T("Assign"), Tok("Num", "1")>>
\* 1
ExprItem == <<Tok("Num", "1")>>

GoodItems == {InitItem, MethodItem("get_a"), MethodItem("get_b"), TwoArgItem}
BadItems == {NoThisItem, NoArgItem, ValueItem, ExprItem}

NumDefs == Cardinality({i \in DOMAIN toks : toks[i].t = "Def"})
NumExprItems ==
    Cardinality({i \in DOMAIN toks : i > 1 /\ toks[i].t = "Num"
                                     /\ toks[i - 1].t # "Assign"})
HasEnd == toks # <<>> /\ toks[Len(toks)].t = "End"

LoadHeader(k) == Load(TypeHeader(k))

\* one more definition is written in the body
PushItem(it) ==
    /\ toks # <<>> /\ ~HasEnd
    /\ NumDefs + NumExprItems < MaxItems
    /\ toks' = toks \o it
    /\ result' = NoResult
    /\ lowered' = NoLowered
    /\ UNCHANGED notParser

PushEnd ==
    /\ toks # <<>> /\ ~HasEnd
    /\ Push(T("End"), Len(toks) + 1)

NextType ==
    \/ \E k \in 0..MaxParams : LoadHeader(k)
    \/ \E it \in GoodItems \cup BadItems : PushItem(it)
    \/ PushEnd
    \/ RunParse

SpecType == InitAll /\ [][NextType]_vars

(***************************************************************************)
(* C11: type declarations.                                                 *)
(***************************************************************************)
IsPrefix(a, b) == Len(a) <= Len(b) /\ SubSeq(b, 1, Len(a)) = a
Drop(sq, n) == SubSeq(sq, n + 1, Len(sq))

\* the body items written in ts, in order; text that is no item of the menu
\* is kept as one last entry
RECURSIVE ItemsOf(_)
ItemsOf(ts) ==
    IF ts = <<>> \/ ts = <<T("End")>> THEN <<>>
    ELSE LET m == {it \in GoodItems \cup BadItems : IsPrefix(it, ts)} IN
         IF m = {} THEN <<ts>>
         ELSE LET it == CHOOSE x \in m : TRUE IN <<it>> \o ItemsOf(Drop(ts, Len(it)))

\* the number of parameters written in the header
HeaderParams == CHOOSE k \in 0..Len(ParamNames) : IsPrefix(TypeHeader(k), toks)

WrittenItems == ItemsOf(Drop(toks, Len(TypeHeader(HeaderParams))))

WrittenMethods == SelectSeq(WrittenItems, LAMBDA it : it # InitItem)

\* type Pair(a, b) def get_a(this) = this.a end
PairExample == TypeHeader(2) \o MethodItem("get_a") \o <<T("End")>>

\* C11: a type declaration whose body holds only function bindings that are
\* named init or take `this` first parses to one Type statement with the
\* written name, the written parameters in order, the init binding (if any)
\* as initializer and the other bindings, in source order, as methods; a body
\* with a value binding, a bare expression, or a method whose first
\* parameter is not `this` returns no statement; the Pair example gives
\* parameters [a, b], no initializer and the one method get_a.
C11_TypeDecl ==
    result.fn = "parse" /\ toks # <<>> =>
        IF HasEnd /\ \A i \in DOMAIN WrittenItems : WrittenItems[i] \in GoodItems
        THEN /\ result.st = "ok" /\ Len(result.v) = 1
             /\ LET ty == result.v[1] IN
                /\ ty.k = "Type" /\ ty.name = "Pair"
                /\ ty.params = SubSeq(ParamNames, 1, HeaderParams)
                /\ Len(ty.init) = (IF \E i \in DOMAIN WrittenItems :
                                        WrittenItems[i] = InitItem THEN 1 ELSE 0)
                /\ \A i \in DOMAIN ty.init :
                      ty.init[i].bind = "init" /\ ty.init[i].bind_type = "Fn"
                /\ Len(ty.methods) = Len(WrittenMethods)
                /\ \A i \in DOMAIN ty.methods :
                      /\ ty.methods[i].bind = WrittenMethods[i][2].v
                      /\ ty.methods[i].bind_type = "Fn"
                      /\ ty.methods[i].value.k = "Lambda"
                      /\ ty.methods[i].value.args[1] = "this"
                /\ toks = PairExample =>
                      /\ ty.params = <<"a", "b">> /\ ty.init = <<>>
                      /\ Len(ty.methods) = 1 /\ ty.methods[1].bind = "get_a"
        ELSE result.st # "ok"

\* the Pair example was parsed
C11_Witness ==
    /\ result.fn = "parse" /\ toks = PairExample /\ result.st = "ok"
    /\ result.v[1].methods[1].value.body.k = "Field"

(***************************************************************************)
(* SpecLet: let expressions.  The stream is `let`, up to MaxBinds bindings *)
(* taken from a menu, `in`, and a body taken from a menu.                  *)
(***************************************************************************)
MaxBinds == 2

\* x = 1
BindX == <<Name("x"), T("Assign"), Tok("Num", "1")>>
\* y = x
BindY == <<Name("y"), T("Assign"), Name("x")>>
\* f ( a ) = a
BindF == <<Name("f"), T("Lparen"), Name("a"), T("Rparen"), T("Assign"), Name("a")>>
\* g ( ) = 1
BindG == <<Name("g"), T("Lparen"), T("Rparen"), T("Assign"), Tok("Num", "1")>>
\* 1 = x
BindNoName == <<Tok("Num", "1"), T("Assign"), Name("x")>>

GoodBinds == {BindX, BindY, BindF, BindG}
BadBinds == {BindNoName}

\* x + 1
BodySum == <<Name("x"), T("Add"), Tok("Num", "1")>>
\* f ( x )
BodyCall == <<Name("f"), T("Lparen"), Name("x"), T("Rparen")>>
Bodies == {BodySum, BodyCall}

HasIn == \E i \in DOMAIN toks : toks[i].t = "In"
NumAssigns == Cardinality({i \in DOMAIN toks : toks[i].t = "Assign"})

LoadLet == Load(<<T("Let")>>)

PushBind(b) ==
    /\ toks # <<>> /\ ~HasIn /\ NumAssigns < MaxBinds
    /\ toks' = toks \o b
    /\ result' = NoResult
    /\ lowered' = NoLowered
    /\ UNCHANGED notParser

PushIn ==
    /\ toks # <<>> /\ ~HasIn
    /\ Push(T("In"), Len(toks) + 1)

PushBody(b) ==
    /\ toks # <<>> /\ toks[Len(toks)].t = "In"
    /\ toks' = toks \o b
    /\ result' = NoResult
    /\ lowered' = NoLowered
    /\ UNCHANGED notParser

NextLet ==
    \/ LoadLet
    \/ \E b \in GoodBinds \cup BadBinds : PushBind(b)
    \/ PushIn
    \/ \E b \in Bodies : PushBody(b)
    \/ RunParseExpr

SpecLet == InitAll /\ [][NextLet]_vars

(***************************************************************************)
(* C12: let expressions.                                                   *)
(***************************************************************************)
\* the bindings written in ts (the text between `let` and `in`), in order
RECURSIVE BindsOf(_)
BindsOf(ts) ==
    IF ts = <<>> THEN <<>>
    ELSE LET m == {b \in GoodBinds \cup BadBinds : IsPrefix(b, ts)} IN
         IF m = {} THEN <<ts>>
         ELSE LET b == CHOOSE x \in m : TRUE IN <<b>> \o BindsOf(Drop(ts, Len(b)))

InPos == CHOOSE i \in DOMAIN toks : toks[i].t = "In"
WrittenBinds == BindsOf(SubSeq(toks, 2, InPos - 1))
WrittenBody == Drop(toks, InPos)

\* the node a one-token operand parses to, but for its location
Atom(t) == IF t.t = "Num" THEN [k |-> "Lit", lit |-> "Num", v |-> t.v]
           ELSE [k |-> "Var", v |-> t.v]
SameAtom(node, t) ==
    /\ node.k = Atom(t).k /\ node.v = t.v
    /\ node.k = "Lit" => node.lit = "Num"

\* the binding node bn is the written binding b
SameBind(bn, b) ==
    /\ bn.bind = b[1].v
    /\ IF b[2].t = "Lparen"
       THEN /\ bn.value.k = "Lambda"
            /\ bn.value.args = (IF b[3].t = "Name" THEN <<b[3].v>> ELSE <<>>)
            /\ SameAtom(bn.value.body, b[Len(b)])
       ELSE SameAtom(bn.value, b[3])

SameBody(node, b) ==
    IF b = BodySum
    THEN /\ node.k = "Binary" /\ node.op = "Add"
         /\ SameAtom(node.left, b[1]) /\ SameAtom(node.right, b[3])
    ELSE /\ node.k = "App" /\ SameAtom(node.callee, b[1])
         /\ Len(node.args) = 1 /\ SameAtom(node.args[1], b[3])

\* let x = 1 in x + 1
LetExample == <<T("Let")>> \o BindX \o <<T("In")>> \o BodySum

\* what holds of every stream `let` bindings `in` body, whatever the number
\* of bindings: the written bindings in order and the written body
LetShape ==
    result.fn = "parse_expr" /\ toks # <<>> /\ HasIn /\ WrittenBody # <<>> =>
        IF \A i \in DOMAIN WrittenBinds : WrittenBinds[i] \in GoodBinds
        THEN /\ result.st = "ok" /\ result.v.k = "Let"
             /\ Len(result.v.binds) = Len(WrittenBinds)
             /\ \A i \in DOMAIN WrittenBinds :
                   SameBind(result.v.binds[i], WrittenBinds[i])
             /\ SameBody(result.v.body, WrittenBody)
        ELSE result.st # "ok"

\* C12 as stated: a let expression has one or more bindings, kept in source
\* order, then `in` and a body; a name followed by `(` binds a lambda, any
\* other binding is name = expr; `let x = 1 in x + 1` has exactly the binding
\* x = Lit(1) and the body Binary(Add, Var(x), Lit(1)).
C12_Original ==
    /\ LetShape
    /\ result.fn = "parse_expr" /\ result.st = "ok" /\ result.v.k = "Let"
          => Len(result.v.binds) >= 1
    /\ result.fn = "parse_expr" /\ toks = LetExample =>
          /\ result.st = "ok" /\ Len(result.v.binds) = 1
          /\ result.v.binds[1].bind = "x"
          /\ result.v.binds[1].value.k = "Lit" /\ result.v.binds[1].value.v = "1"
          /\ result.v.body.k = "Binary" /\ result.v.body.op = "Add"
          /\ result.v.body.left.k = "Var" /\ result.v.body.left.v = "x"
          /\ result.v.body.right.k = "Lit" /\ result.v.body.right.v = "1"

(***************************************************************************)
(* Operations on runtime values: truthiness, negation, ordering and        *)
(* arithmetic.                                                             *)
(***************************************************************************)
\* (mutant) an empty list counts as true
to_bool_list_true(v) ==
    CASE v.tag = "Bool" -> v.n = 1
      [] v.tag = "Sym" -> TRUE
      [] v.tag = "Str" -> v.c # <<>>
      [] v.tag = "Num" -> ~f64_eq(v, NumV(0))
      [] v.tag = "Nil" -> FALSE
      [] OTHER -> TRUE

\* Value::to_bool
to_bool(v) ==
    CASE v.tag = "Bool" -> v.n = 1
      [] v.tag = "Sym" -> TRUE
      [] v.tag = "Str" -> v.c # <<>>
      [] v.tag = "Num" -> ~f64_eq(v, NumV(0))
      [] v.tag = "Nil" -> FALSE
      [] v.tag = "List" -> v.l # <<>>
      [] v.tag = "Fn" -> TRUE
      [] v.tag = "Type" -> TRUE
      [] v.tag = "Table" -> TRUE
      [] v.tag = "Instance" -> TRUE
      [] v.tag = "Mutable" -> TRUE

\* impl Not for Value
Not(v) == BoolV(~to_bool(v))

(***************************************************************************)
(* SpecOps: two operands are loaded from literals, made by division and    *)
(* negation, or are a fresh mutable cell holding a value; then one         *)
(* operation is applied to them.                                           *)
(***************************************************************************)
MaxOpCells == 1

OpLits == {nil, BoolV(FALSE), BoolV(TRUE), NumV(0), NumV(1), NumV(3), NumV(64),
           StrV(<<>>), StrV(<<"a">>), SymV("a"), ListV(<<>>), ListV(<<NumV(0)>>),
           ObjV("Fn", 1, ""), ObjV("Table", 0, ""), ObjV("Type", 0, "T"),
           ObjV("Instance", 0, "T")}

CellContents == {nil, NumV(0), NumV(1)}

LoadOperand(v) ==
    /\ va' = v /\ vout' = NoOut
    /\ UNCHANGED vb
    /\ UNCHANGED <<parserVars, listVars, mutVars, strVars>>

\* init, then set: the operand is a cell that holds v
MakeCell(v) ==
    /\ Len(slots) < MaxOpCells
    /\ LET r == init(slots, <<>>)
           s == set(r.slots, <<r.res, v>>)
       IN  slots' = s.slots /\ va' = r.res
    /\ vout' = NoOut
    /\ UNCHANGED <<vb, handles, written, got>>
    /\ UNCHANGED <<parserVars, listVars, strVars>>

ToBoolOp ==
    /\ vout' = [op |-> "to_bool", a |-> va, res |-> to_bool(va)]
    /\ UNCHANGED <<va, vb>>
    /\ UNCHANGED notVal

NotOp ==
    /\ vout' = [op |-> "not", a |-> va, res |-> Not(va)]
    /\ UNCHANGED <<va, vb>>
    /\ UNCHANGED notVal

\* cmp::Ordering
Ordering(o) == V("Ordering", 0, o, <<>>, <<>>)
IsOrdering(r) == r.tag = "Ordering"

\* x < y on f64, neither operand a NaN
f64_lt(x, y) ==
    IF x.s = "-inf" THEN y.s # "-inf"
    ELSE IF y.s = "inf" THEN x.s # "inf"
    ELSE IF x.s = "inf" \/ y.s = "-inf" THEN FALSE
    ELSE (IF IsZero(x) THEN 0 ELSE x.n) < (IF IsZero(y) THEN 0 ELSE y.n)

\* f64::partial_cmp: None when an operand is a NaN
partial_cmp(x, y) ==
    IF IsNaN(x) \/ IsNaN(y) THEN None
    ELSE IF f64_lt(x, y) THEN Some(Ordering("Less"))
    ELSE IF f64_lt(y, x) THEN Some(Ordering("Greater"))
    ELSE Some(Ordering("Equal"))

\* (mutant) an unordered pair of numbers counts as equal
ord_cmp_total(sl, left, right) ==
    IF left.tag = "Num" /\ right.tag = "Num"
    THEN LET o == partial_cmp(left, right) IN
         IF o # None THEN o[1] ELSE Ordering("Equal")
    ELSE RaiseWith("Can't compare {} and {}",
                   <<Display(sl, left), Display(sl, right)>>)

\* Value::ord_cmp
ord_cmp(sl, left, right) ==
    IF left.tag = "Num" /\ right.tag = "Num"
    THEN LET o == partial_cmp(left, right) IN
         IF o # None THEN o[1] ELSE Raise("Error applying cmp")
    ELSE RaiseWith("Can't compare {} and {}",
                   <<Display(sl, left), Display(sl, right)>>)

OrdCmpOp ==
    /\ vout' = [op |-> "ord_cmp", a |-> va, b |-> vb, res |-> ord_cmp(slots, va, vb)]
    /\ UNCHANGED <<va, vb>>
    /\ UNCHANGED notVal

(***************************************************************************)
(* Arithmetic on f64 for the numbers of the model (whole numbers, the two  *)
(* zeros, NaN and the infinities), and i64 as 64 bits, bit 0 the lowest.   *)
(***************************************************************************)
\* f64 + f64
f64_add(x, y) ==
    IF IsNaN(x) \/ IsNaN(y) THEN NaN
    ELSE IF IsInf(x) THEN (IF IsInf(y) /\ x.s # y.s THEN NaN ELSE x)
    ELSE IF IsInf(y) THEN y
    ELSE IF IsZero(x) /\ IsZero(y) THEN Zero(Negative(x) /\ Negative(y))
    ELSE NumV(x.n + y.n)

\* f64 - f64
f64_sub(x, y) == f64_add(x, f64_neg(y))

\* f64 * f64
f64_mul(x, y) ==
    LET neg == Negative(x) # Negative(y) IN
    IF IsNaN(x) \/ IsNaN(y) THEN NaN
    ELSE IF IsInf(x) \/ IsInf(y)
         THEN (IF IsZero(x) \/ IsZero(y) THEN NaN ELSE Inf(neg))
    ELSE IF IsZero(x) \/ IsZero(y) THEN Zero(neg)
    ELSE NumV(x.n * y.n)

\* f64 % f64: the remainder of the truncated division, signed as the dividend
f64_rem(x, y) ==
    IF IsNaN(x) \/ IsNaN(y) \/ IsInf(x) \/ IsZero(y) THEN NaN
    ELSE IF IsInf(y) \/ IsZero(x) THEN x
    ELSE LET r == Abs(x.n) % Abs(y.n) IN
         IF r = 0 THEN Zero(Negative(x))
         ELSE NumV(IF Negative(x) THEN 0 - r ELSE r)

I64Bits == 0..63
I64_MAX == [i \in I64Bits |-> IF i = 63 THEN 0 ELSE 1]
I64_MIN == [i \in I64Bits |-> IF i = 63 THEN 1 ELSE 0]

\* bit i of the natural number n < 2^30
BitOf(n, i) == IF i >= 30 THEN 0 ELSE (n \div (2 ^ i)) % 2

\* the two's complement bits of the whole number n
ToBits(n) ==
    [i \in I64Bits |-> IF n >= 0 THEN BitOf(n, i) ELSE 1 - BitOf((0 - n) - 1, i)]

\* f64::round: the numbers of the model are whole
round(x) == x

\* f64 as i64: saturating, a NaN gives 0
as_i64(x) ==
    CASE x.s = "nan" -> ToBits(0)
      [] x.s = "inf" -> I64_MAX
      [] x.s = "-inf" -> I64_MIN
      [] OTHER -> ToBits(x.n)

RECURSIVE LowValue(_, _)
LowValue(b, i) == IF i < 0 THEN 0 ELSE b[i] * (2 ^ i) + LowValue(b, i - 1)

\* the i64 is one of the whole numbers of the model
Small(b) == \A i \in 30..63 : b[i] = b[63]

\* i64 as f64; an i64 outside the whole numbers of the model stays a number,
\* kept by its bits
as_f64(b) ==
    IF Small(b) THEN NumV(LowValue(b, 29) - b[63] * (2 ^ 30))
    ELSE V("Num", 0, "i64", <<>>, [i \in 1..64 |-> b[i - 1]])

i64_xor(a, b) == [i \in I64Bits |-> (a[i] + b[i]) % 2]
i64_and(a, b) == [i \in I64Bits |-> a[i] * b[i]]
i64_or(a, b) == [i \in I64Bits |-> IF a[i] + b[i] > 0 THEN 1 ELSE 0]

\* the shift amount is outside 0..63
ShiftOverflow(b) == \E i \in 6..63 : b[i] = 1

\* the amount a build without overflow checks shifts by: the low six bits
Masked(b) == LowValue(b, 5)

wrapping_shl(a, k) == [i \in I64Bits |-> IF i >= k THEN a[i - k] ELSE 0]
\* arithmetic shift: the sign bit is copied
wrapping_shr(a, k) == [i \in I64Bits |-> IF i + k <= 63 THEN a[i + k] ELSE a[63]]

\* i64 << i64 and i64 >> i64: a build with overflow checks panics on an
\* amount outside 0..63, a build without them masks the amount
i64_shl(a, b, checks) ==
    IF ShiftOverflow(b) /\ checks THEN Panic("attempt to shift left with overflow")
    ELSE as_f64(wrapping_shl(a, Masked(b)))

i64_shr(a, b, checks) ==
    IF ShiftOverflow(b) /\ checks THEN Panic("attempt to shift right with overflow")
    ELSE as_f64(wrapping_shr(a, Masked(b)))

Shown(sl, x, y) == <<Display(sl, x), Display(sl, y)>>

\* impl Add for Value
Add(sl, x, y) ==
    IF x.tag = "Num" /\ y.tag = "Num" THEN f64_add(x, y)
    ELSE IF x.tag = "Str" /\ y.tag = "Str" THEN StrV(x.c \o y.c)
    ELSE RaiseWith("Can't apply + operator between {} and {}", Shown(sl, x, y))

\* impl Sub for Value
Sub(sl, x, y) ==
    IF x.tag = "Num" /\ y.tag = "Num" THEN f64_sub(x, y)
    ELSE RaiseWith("Can't apply - operator between {} and {}", Shown(sl, x, y))

\* impl Mul for Value
Mul(sl, x, y) ==
    IF x.tag = "Num" /\ y.tag = "Num" THEN f64_mul(x, y)
    ELSE RaiseWith("Can't apply * operator between {} and {}", Shown(sl, x, y))

\* impl Rem for Value
Rem(sl, x, y) ==
    IF x.tag = "Num" /\ y.tag = "Num" THEN f64_rem(x, y)
    ELSE RaiseWith("Can't apply % between {} and {}", Shown(sl, x, y))

\* impl BitXor for Value
BitXor(sl, x, y) ==
    IF x.tag = "Num" /\ y.tag = "Num"
    THEN as_f64(i64_xor(as_i64(round(x)), as_i64(round(y))))
    ELSE RaiseWith("Can't apply bitwise ^ between {} and {}", Shown(sl, x, y))

\* impl BitAnd for Value
BitAnd(sl, x, y) ==
    IF x.tag = "Num" /\ y.tag = "Num"
    THEN as_f64(i64_and(as_i64(round(x)), as_i64(round(y))))
    ELSE RaiseWith("Can't apply bitwise & between {} and {}", Shown(sl, x, y))

\* impl BitOr for Value
BitOr(sl, x, y) ==
    IF x.tag = "Num" /\ y.tag = "Num"
    THEN as_f64(i64_or(as_i64(round(x)), as_i64(round(y))))
    ELSE RaiseWith("Can't apply bitwise | between {} and {}", Shown(sl, x, y))

\* impl Shr for Value
Shr(sl, x, y, checks) ==
    IF x.tag = "Num" /\ y.tag = "Num"
    THEN i64_shr(as_i64(round(x)), as_i64(round(y)), checks)
    ELSE RaiseWith("Can't apply bitwise >> between {} and {}", Shown(sl, x, y))

\* impl Shl for Value
Shl(sl, x, y, checks) ==
    IF x.tag = "Num" /\ y.tag = "Num"
    THEN i64_shl(as_i64(round(x)), as_i64(round(y)), checks)
    ELSE RaiseWith("Can't apply bitwise << between {} and {}", Shown(sl, x, y))

ValueOps == {"+", "-", "*", "/", "%", "^", "&", "|", ">>", "<<"}

\* the operator applied by the machine; checks: the build has overflow checks
Apply(o, sl, x, y, checks) ==
    CASE o = "+" -> Add(sl, x, y)
      [] o = "-" -> Sub(sl, x, y)
      [] o = "*" -> Mul(sl, x, y)
      [] o = "/" -> Div(sl, x, y)
      [] o = "%" -> Rem(sl, x, y)
      [] o = "^" -> BitXor(sl, x, y)
      [] o = "&" -> BitAnd(sl, x, y)
      [] o = "|" -> BitOr(sl, x, y)
      [] o = ">>" -> Shr(sl, x, y, checks)
      [] o = "<<" -> Shl(sl, x, y, checks)

BinOp(o, checks) ==
    /\ o = "/" /\ va.tag = "Num" /\ vb.tag = "Num" => Exact(va, vb)
    /\ vout' = [op |-> o, a |-> va, b |-> vb, checks |-> checks,
                res |-> Apply(o, slots, va, vb, checks)]
    /\ UNCHANGED <<va, vb>>
    /\ UNCHANGED notVal

UnaryMinusOp ==
    /\ vout' = [op |-> "neg", a |-> va, res |-> Neg(slots, va)]
    /\ UNCHANGED <<va, vb>>
    /\ UNCHANGED notVal

NextOps ==
    \/ \E v \in OpLits : LoadOperand(v)
    \/ \E v \in CellContents : MakeCell(v)
    \/ SwapOp
    \/ DivOp
    \/ NegOp
    \/ ToBoolOp
    \/ NotOp
    \/ OrdCmpOp
    \/ \E o \in ValueOps, checks \in BOOLEAN : BinOp(o, checks)
    \/ UnaryMinusOp

SpecOps == InitAll /\ [][NextOps]_vars

\* the values the sentence lists as false
Falsy(v) == v \in {nil, BoolV(FALSE), NumV(0), NegZero, StrV(<<>>), ListV(<<>>)}

\* C13: to_bool is false exactly for nil, false, the number zero, the empty
\* string and the empty list and true for every other value (symbols,
\* non-empty strings and lists, nonzero numbers, functions, tables, types,
\* instances, cells whatever they hold); not gives the boolean negation of it.
C13_Truthiness ==
    /\ vout.op = "to_bool" => vout.res = ~Falsy(vout.a)
    /\ vout.op = "not" => vout.res = BoolV(Falsy(vout.a))

\* a cell holding nil is true
C13_Witness ==
    /\ vout.op = "to_bool" /\ vout.a.tag = "Mutable"
    /\ slots[vout.a.n] = nil /\ vout.res = TRUE

BothNum(a, b) == a.tag = "Num" /\ b.tag = "Num"

\* the failure names the renderings of a and b, in this order
NamesBoth(r, a, b) == IsErr(r) /\ r.c = <<Display(slots, a), Display(slots, b)>>

OpMessage(o) ==
    IF o \in {"+", "-", "*", "/"}
    THEN "Can't apply " \o o \o " operator between {} and {}"
    ELSE IF o = "%" THEN "Can't apply % between {} and {}"
    ELSE "Can't apply bitwise " \o o \o " between {} and {}"

BothStr(a, b) == a.tag = "Str" /\ b.tag = "Str"

\* everything the sentence says about a result that is not a panic
DecidedByTags(o, a, b, r) ==
    /\ BothNum(a, b) => r.tag = "Num"
    /\ o = "+" /\ BothStr(a, b) => r = StrV(a.c \o b.c)
    /\ ~BothNum(a, b) /\ ~(o = "+" /\ BothStr(a, b)) =>
           IsErr(r) /\ r.s = OpMessage(o) /\ r.c = Shown(slots, a, b)

UnaryMinus(a, r) ==
    /\ a.tag = "Num" => r.tag = "Num" /\ f64_eq(f64_add(a, r), NumV(0)) = ~(IsNaN(a) \/ IsInf(a))
    /\ a.tag # "Num" =>
           IsErr(r) /\ r.s = "Can't apply unary - operator on {}"
                    /\ r.c = <<Display(slots, a)>>

\* C16 as stated: on two numbers every arithmetic and bitwise operator gives
\* a number, for all numeric operands including any shift amount; + on two
\* strings concatenates; every other tag combination gives a failure naming
\* the operator and both operands; nothing aborts; unary minus likewise.
C16_Original ==
    /\ vout.op \in ValueOps =>
           /\ ~IsPanic(vout.res)
           /\ DecidedByTags(vout.op, vout.a, vout.b, vout.res)
    /\ vout.op = "neg" => UnaryMinus(vout.a, vout.res)

\* the whole number a shift amount is rounded to lies outside 0..63
AmountOutOfRange(b) ==
    IsInf(b) \/ (b.s = "" /\ (b.n < 0 \/ b.n > 63))

\* what holds: the only abort is a shift in a build with overflow checks by
\* an amount outside 0..63; every other result is as the sentence says
ArithmeticExceptShiftOverflow ==
    /\ vout.op \in ValueOps =>
           /\ IsPanic(vout.res) <=>
                  /\ vout.op \in {">>", "<<"} /\ BothNum(vout.a, vout.b)
                  /\ vout.checks /\ AmountOutOfRange(vout.b)
           /\ ~IsPanic(vout.res) =>
                  DecidedByTags(vout.op, vout.a, vout.b, vout.res)
    /\ vout.op = "neg" => UnaryMinus(vout.a, vout.res)
    /\ vout.op \in {"^", "&", "|"} /\ BothNum(vout.a, vout.b)
           /\ vout.a.s = "" /\ vout.b.s = "" /\ vout.a.n >= 0 /\ vout.b.n >= 0 =>
           BitXor(slots, vout.a, vout.b).n + 2 * BitAnd(slots, vout.a, vout.b).n
               = vout.a.n + vout.b.n
    /\ vout.op = "<<" /\ ~IsPanic(vout.res) /\ vout.a = NumV(3) /\ vout.b = NumV(1) =>
           vout.res = NumV(6)
    /\ vout.op = ">>" /\ ~IsPanic(vout.res) /\ vout.a = NumV(-3) /\ vout.b = NumV(1) =>
           vout.res = NumV(-2)

(***************************************************************************)
(* SpecBridge: the machine calls a native bridge method with an argument   *)
(* vector; the vector's length and tags are whatever the calling program   *)
(* supplies.  Cells are the ones made by init; a cell is never stored in   *)
(* a cell.                                                                 *)
(***************************************************************************)
MaxArgs == 3

ArgLits == {NumV(1), StrV(<<"a">>), StrV(<<"a", "b", "a">>)}
ArgValues == ArgLits \cup {MutableV(i) : i \in 1..MaxOpCells}
ArgVectors == UNION {[1..k -> ArgValues] : k \in 0..MaxArgs}
\* every cell passed has been made
Live(argv) == \A i \in 1..Len(argv) : argv[i].tag = "Mutable" => argv[i].n <= Len(slots)

Called(m, argv, res) == [op |-> m, argv |-> argv, res |-> res]

CallInit(argv) ==
    /\ Live(argv) /\ Len(slots) < MaxOpCells
    /\ LET r == init(slots, argv) IN
       slots' = r.slots /\ vout' = Called("init", argv, r.res)
    /\ UNCHANGED <<va, vb, handles, written, got>>
    /\ UNCHANGED <<parserVars, listVars, strVars>>

CallSet(argv) ==
    /\ Live(argv)
    /\ Len(argv) >= 2 => argv[2].tag # "Mutable"
    /\ LET r == set(slots, argv) IN
       slots' = r.slots /\ vout' = Called("set", argv, r.res)
    /\ UNCHANGED <<va, vb, handles, written, got>>
    /\ UNCHANGED <<parserVars, listVars, strVars>>

CallGet(argv) ==
    /\ Live(argv)
    /\ LET r == get(slots, argv) IN
       slots' = r.slots /\ vout' = Called("get", argv, r.res)
    /\ UNCHANGED <<va, vb, handles, written, got>>
    /\ UNCHANGED <<parserVars, listVars, strVars>>

CallSplit(argv) ==
    /\ Live(argv)
    /\ vout' = Called("split", argv, split(slots, argv))
    /\ UNCHANGED <<va, vb>>
    /\ UNCHANGED notVal

CallContains(argv) ==
    /\ Live(argv)
    /\ vout' = Called("contains", argv, contains(slots, argv))
    /\ UNCHANGED <<va, vb>>
    /\ UNCHANGED notVal

CallReplace(argv) ==
    /\ Live(argv)
    /\ vout' = Called("replace", argv, replace(slots, argv))
    /\ UNCHANGED <<va, vb>>
    /\ UNCHANGED notVal

NextBridge ==
    \/ \E argv \in ArgVectors : CallInit(argv)
    \/ \E argv \in ArgVectors : CallSet(argv)
    \/ \E argv \in ArgVectors : CallGet(argv)
    \/ \E argv \in ArgVectors : CallSplit(argv)
    \/ \E argv \in ArgVectors : CallContains(argv)
    \/ \E argv \in ArgVectors : CallReplace(argv)

SpecBridge == InitAll /\ [][NextBridge]_vars

BridgeMethods == {"init", "set", "get", "split", "contains", "replace"}

\* the tags a method extracts from its arguments, in argument order
Wanted(m) ==
    CASE m = "init" -> <<>>
      [] m = "set" -> <<"Mutable">>
      [] m = "get" -> <<"Mutable">>
      [] m = "split" -> <<"Str", "Str">>
      [] m = "contains" -> <<"Str", "Str">>
      [] m = "replace" -> <<"Str", "Str", "Str">>

\* the name impl_get! prints for a tag
TagName(tag) == IF tag = "Str" THEN "String" ELSE tag

\* the first argument that is present and has the wrong tag, 0 if none
FirstWrong(m, argv) ==
    LET bad == {i \in 1..Len(Wanted(m)) :
                   i <= Len(argv) /\ argv[i].tag # Wanted(m)[i]} IN
    IF bad = {} THEN 0 ELSE CHOOSE i \in bad : \A j \in bad : i <= j

\* the arguments a method indexes
Arity(m) == IF m = "set" THEN 2 ELSE Len(Wanted(m))

\* C15 as stated: every bridge method returns a value or a typed failure for
\* every argument sequence and never aborts; an argument that is present
\* with the wrong tag gives the failure "expected <tag>, found <rendering>".
C15_Original ==
    vout.op \in BridgeMethods =>
        /\ ~IsPanic(vout.res)
        /\ FirstWrong(vout.op, vout.argv) # 0 =>
               LET i == FirstWrong(vout.op, vout.argv) IN
               /\ IsErr(vout.res)
               /\ vout.res.s = "expected {}, found {}"
               /\ vout.res.c[1] = TagName(Wanted(vout.op)[i])

\* what holds: a call returns without a panic when no argument the method
\* indexes is missing before the first one of a wrong tag, and the first
\* wrong tag is reported
BridgeWithArguments ==
    vout.op \in BridgeMethods =>
        LET i == FirstWrong(vout.op, vout.argv)
            need == IF i = 0 THEN Arity(vout.op) ELSE i IN
        /\ IsPanic(vout.res) <=> Len(vout.argv) < need
        /\ ~IsPanic(vout.res) /\ i # 0 =>
               vout.res = Expected(slots, TagName(Wanted(vout.op)[i]), vout.argv[i])

(***************************************************************************)
(* C17: source locations.  A token's location is its place in the stream.  *)
(***************************************************************************)
\* every node of n, an expression whose first token is at place start, has
\* the location claimed: the operator token's, or the left operand's for a
\* logical or/and
RECURSIVE LocOK(_, _)
LocOK(n, start) ==
    CASE n.k = "Binary" ->
            LET opAt == start + Len(Flatten(n.left)) IN
            /\ n.loc = IF n.op \in {"Or", "And"} THEN n.left.loc ELSE opAt
            /\ LocOK(n.left, start) /\ LocOK(n.right, opAt + 1)
      [] n.k = "Cons" ->
            LET opAt == start + Len(Flatten(n.head)) IN
            /\ n.loc = opAt
            /\ LocOK(n.head, start) /\ LocOK(n.tail, opAt + 1)
      [] n.k = "UnOp" -> n.loc = start /\ LocOK(n.right, start + 1)
      [] OTHER -> TRUE

\* C17: in every successfully parsed expression, every Binary node of an
\* equality, relational, bitwise, additive or multiplicative operator, every
\* Cons node and every unary-prefix node carries the location of its operator
\* token, and every Binary node of a logical or/and carries the location of
\* its left operand.
C17_Locations ==
    (result.fn = "parse_expr" /\ result.st = "ok" /\ EndsInOperand) =>
        LocOK(result.v, 1)

\* a + b or c: the Or node carries the location of a + b, which is that of +
C17_Witness ==
    /\ result.fn = "parse_expr" /\ result.st = "ok"
    /\ toks = <<Tok("Name", "a"), T("Add"), Tok("Name", "b"), T("Or"), Tok("Name", "c")>>
    /\ result.v.k = "Binary" /\ result.v.op = "Or" /\ result.v.loc = 2
    /\ result.v.left.loc = 2

(***************************************************************************)
(* C20: associativity.                                                     *)
(***************************************************************************)
\* a chain of one level nests left, except a chain of cons, which nests right
RECURSIVE AssocOK(_)
AssocOK(n) ==
    CASE n.k = "Binary" ->
            /\ NodeRank(n.right) > NodeRank(n)
            /\ AssocOK(n.left) /\ AssocOK(n.right)
      [] n.k = "Cons" ->
            /\ NodeRank(n.head) > NodeRank(n)
            /\ AssocOK(n.head) /\ AssocOK(n.tail)
      [] n.k = "UnOp" -> AssocOK(n.right)
      [] OTHER -> TRUE

OneMinusTwoMinusThree == <<Num(1), T("Sub"), Num(2), T("Sub"), Num(3)>>
AOrBAndC ==
    <<Tok("Name", "a"), T("BitOr"), Tok("Name", "b"), T("BitAnd"), Tok("Name", "c")>>
ConsChain ==
    <<Tok("Name", "a"), T("Cons"), Tok("Name", "b"), T("Cons"), Tok("Name", "c")>>

\* C20: the right operand of a binary operator is never an operator of the
\* same level (chains nest left), the head of a cons is never a cons (chains
\* of cons nest right); 1 - 2 - 3 is Sub(Sub(1, 2), 3), a | b & c is
\* BitAnd(BitOr(a, b), c).
C20_Associativity ==
    (result.fn = "parse_expr" /\ result.st = "ok" /\ EndsInOperand) =>
        /\ Flatten(result.v) = toks
        /\ AssocOK(result.v)
        /\ toks = OneMinusTwoMinusThree =>
               Shape(result.v) =
                   <<"Sub", <<"Sub", <<"Lit", "1">>, <<"Lit", "2">>>>, <<"Lit", "3">>>>
        /\ toks = AOrBAndC =>
               Shape(result.v) =
                   <<"BitAnd", <<"BitOr", <<"Var", "a">>, <<"Var", "b">>>>, <<"Var", "c">>>>
        /\ toks = ConsChain =>
               Shape(result.v) =
                   <<"Cons", <<"Var", "a">>, <<"Cons", <<"Var", "b">>, <<"Var", "c">>>>>>

\* a :: b :: c has been parsed to a cons whose tail is a cons
C20_Witness ==
    /\ result.fn = "parse_expr" /\ result.st = "ok" /\ toks = ConsChain
    /\ result.v.k = "Cons" /\ result.v.tail.k = "Cons"

(***************************************************************************)
(* SpecDot: an object followed by field reads and method invocations,      *)
(* then possibly a token that does not continue the access chain; parsed   *)
(* by parse_expr.                                                          *)
(***************************************************************************)
MaxAccesses == 3

\* a, f()
DotObjects == {<<Name("a")>>, <<Name("f"), T("Lparen"), T("Rparen")>>}

FieldAccess(f) == [kind |-> "Field", name |-> f, argv |-> <<>>]
InvokeAccess(m, as) == [kind |-> "Invoke", name |-> m, argv |-> as]

\* .b  .c  .b()  .c(x)  .b(x, 1)
Accesses == {FieldAccess("b"), FieldAccess("c"), InvokeAccess("b", <<>>),
             InvokeAccess("c", <<Name("x")>>),
             InvokeAccess("b", <<Name("x"), Num(1)>>)}

RECURSIVE CommaList(_)
CommaList(as) ==
    IF as = <<>> THEN <<>>
    ELSE IF Len(as) = 1 THEN as
    ELSE <<Head(as), T("Comma")>> \o CommaList(Tail(as))

\* the text of an access
AccessToks(c) ==
    <<T("Dot"), Name(c.name)>> \o
    (IF c.kind = "Invoke"
     THEN <<T("Lparen")>> \o CommaList(c.argv) \o <<T("Rparen")>> ELSE <<>>)

\* what may follow the chain: a token that ends the expression, or + 1
DotTails == {<<T("Rbrack")>>, <<T("Comma")>>, <<T("Assign")>>, <<Name("z")>>,
             <<T("Add"), Num(1)>>}

NumDots == Cardinality({i \in DOMAIN toks : toks[i].t = "Dot"})
\* no object and no access ends in the last token of a tail
HasTail == \E tl \in DotTails : toks[Len(toks)] = tl[Len(tl)]

LoadObject(o) == Load(o)

PushAccess(c) ==
    /\ toks # <<>> /\ ~HasTail /\ NumDots < MaxAccesses
    /\ toks' = toks \o AccessToks(c)
    /\ result' = NoResult
    /\ lowered' = NoLowered
    /\ UNCHANGED notParser

PushTail(tl) ==
    /\ toks # <<>> /\ ~HasTail
    /\ toks' = toks \o tl
    /\ result' = NoResult
    /\ lowered' = NoLowered
    /\ UNCHANGED notParser

NextDot ==
    \/ \E o \in DotObjects : LoadObject(o)
    \/ \E c \in Accesses : PushAccess(c)
    \/ \E tl \in DotTails : PushTail(tl)
    \/ RunParseExpr

SpecDot == InitAll /\ [][NextDot]_vars

(***************************************************************************)
(* C18: dot access.                                                        *)
(***************************************************************************)
WrittenObject == CHOOSE o \in DotObjects : IsPrefix(o, toks)

\* the accesses written at the head of ts, in order: at each step the
\* longest access of the menu that the text starts with
RECURSIVE AccessesOf(_)
AccessesOf(ts) ==
    LET m == {c \in Accesses : IsPrefix(AccessToks(c), ts)} IN
    IF m = {} THEN <<>>
    ELSE LET c == CHOOSE x \in m :
                      \A y \in m : Len(AccessToks(y)) <= Len(AccessToks(x))
         IN  <<c>> \o AccessesOf(Drop(ts, Len(AccessToks(c))))

WrittenAccesses == AccessesOf(Drop(toks, Len(WrittenObject)))

RECURSIVE AccessLen(_)
AccessLen(cs) ==
    IF cs = <<>> THEN 0 ELSE Len(AccessToks(Head(cs))) + AccessLen(Tail(cs))

WrittenTail == Drop(toks, Len(WrittenObject) + AccessLen(WrittenAccesses))

SameObject(node, o) ==
    IF Len(o) = 1 THEN SameAtom(node, o[1])
    ELSE node.k = "App" /\ SameAtom(node.callee, o[1]) /\ node.args = <<>>

\* node is the chain cs applied to the object o, nested to the left: the
\* last access is the outermost node and its object is the chain before it
RECURSIVE SameChain(_, _, _)
SameChain(node, o, cs) ==
    IF cs = <<>> THEN SameObject(node, o)
    ELSE LET c == cs[Len(cs)] IN
         /\ node.k = c.kind
         /\ node.field = c.name
         /\ c.kind = "Invoke" =>
                /\ Len(node.args) = Len(c.argv)
                /\ \A i \in 1..Len(c.argv) : SameAtom(node.args[i], c.argv[i])
         /\ SameChain(node.obj, o, SubSeq(cs, 1, Len(cs) - 1))

\* a.b(x, 1).c
DotExample == <<Name("a")>> \o AccessToks(InvokeAccess("b", <<Name("x"), Num(1)>>))
                  \o AccessToks(FieldAccess("c"))

\* C18: every written access parses to Invoke{obj, name, args} with the
\* parenthesised arguments when ( follows the name and to Field{obj, name}
\* when any other token follows, and a chain nests to the left, each access
\* taking the result before it as its object.
C18_DotAccess ==
    (result.fn = "parse_expr" /\ toks # <<>>) =>
        /\ result.st = "ok"
        /\ LET chain == IF WrittenTail = <<T("Add"), Num(1)>>
                        THEN result.v.left ELSE result.v IN
           SameChain(chain, WrittenObject, WrittenAccesses)
        /\ WrittenTail = <<T("Add"), Num(1)>> =>
               result.v.k = "Binary" /\ result.v.op = "Add"

\* a.b(x, 1).c is Field{Invoke{a, b, [x, 1]}, c}
C18_Witness ==
    /\ result.fn = "parse_expr" /\ result.st = "ok" /\ toks = DotExample
    /\ result.v.k = "Field" /\ result.v.field = "c"
    /\ result.v.obj.k = "Invoke" /\ result.v.obj.field = "b"
    /\ Len(result.v.obj.args) = 2 /\ result.v.obj.obj.k = "Var"

(***************************************************************************)
(* SpecSeq: expressions separated by ; where an expression is a plain      *)
(* operand or sum, possibly behind the heads of let, if and lambda forms;  *)
(* parsed by parse_expr.                                                   *)
(***************************************************************************)
MaxSeqItems == 3
MaxHeads == 2

\* let x = 1 in ..
LetHead == <<T("Let"), Name("x"), T("Assign"), Num(1), T("In")>>
\* if c then a else ..
IfHead == <<T("If"), Name("c"), T("Then"), Name("a"), T("Else")>>
\* fn (x) = ..
FnHead == <<T("Fn"), T("Lparen"), Name("x"), T("Rparen"), T("Assign")>>
Heads == {LetHead, IfHead, FnHead}

\* a   2 + b
Plains == {<<Name("a")>>, <<Num(2), T("Add"), Name("b")>>}

NumSeqs == Cardinality({i \in DOMAIN toks : toks[i].t = "Seq"})
NumHeads == Cardinality({i \in DOMAIN toks : toks[i].t \in {"Let", "If", "Fn"}})
\* the next token starts an expression
AtStart ==
    IF toks = <<>> THEN TRUE
    ELSE toks[Len(toks)].t \in {"Seq", "In", "Else", "Assign"}

PushHead(h) ==
    /\ AtStart /\ NumHeads < MaxHeads
    /\ toks' = toks \o h
    /\ result' = NoResult
    /\ lowered' = NoLowered
    /\ UNCHANGED notParser

PushPlain(e) ==
    /\ AtStart
    /\ toks' = toks \o e
    /\ result' = NoResult
    /\ lowered' = NoLowered
    /\ UNCHANGED notParser

PushSeq ==
    /\ ~AtStart /\ NumSeqs + 1 < MaxSeqItems
    /\ Push(T("Seq"), Len(toks) + 1)

NextSeq ==
    \/ \E h \in Heads : PushHead(h)
    \/ \E e \in Plains : PushPlain(e)
    \/ PushSeq
    \/ RunParseExpr

SpecSeq == InitAll /\ [][NextSeq]_vars

(***************************************************************************)
(* C19: sequences.                                                         *)
(***************************************************************************)
\* the plain expression written at the head of ts (the longest of the menu)
PlainAt(ts) ==
    LET m == {e \in Plains : IsPrefix(e, ts)} IN
    CHOOSE e \in m : \A y \in m : Len(y) <= Len(e)

SamePlain(node, e) ==
    IF Len(e) = 1 THEN SameAtom(node, e[1])
    ELSE /\ node.k = "Binary" /\ node.op = "Add"
         /\ SameAtom(node.left, e[1]) /\ SameAtom(node.right, e[3])

\* node is the text ts read as the sentence says: a form's head takes all
\* that follows as its body or last branch; a plain expression followed by
\* ; is the left of a Seq whose right is all that follows
RECURSIVE SameSeq(_, _)
SameSeq(node, ts) ==
    IF IsPrefix(LetHead, ts)
    THEN /\ node.k = "Let" /\ Len(node.binds) = 1 /\ node.binds[1].bind = "x"
         /\ SameSeq(node.body, Drop(ts, Len(LetHead)))
    ELSE IF IsPrefix(IfHead, ts)
    THEN /\ node.k = "If" /\ SameAtom(node.cond, Name("c"))
         /\ SameAtom(node.then, Name("a"))
         /\ SameSeq(node.else_, Drop(ts, Len(IfHead)))
    ELSE IF IsPrefix(FnHead, ts)
    THEN /\ node.k = "Lambda" /\ node.args = <<"x">>
         /\ SameSeq(node.body, Drop(ts, Len(FnHead)))
    ELSE LET e == PlainAt(ts) IN
         IF Len(ts) = Len(e) THEN SamePlain(node, e)
         ELSE /\ node.k = "Seq"
              /\ SamePlain(node.left, e)
              /\ SameSeq(node.right, Drop(ts, Len(e) + 1))

\* a ; let x = 1 in a ; 2 + b
SeqExample ==
    <<Name("a"), T("Seq")>> \o LetHead \o <<Name("a"), T("Seq"), Num(2), T("Add"), Name("b")>>

\* C19: expressions separated by ; parse to the right-nested chain
\* Seq(e1, Seq(e2, ..)) over all of them, and a let, if or lambda form that
\* starts an expression takes everything up to the end of the chain as its
\* body or last branch.
C19_Sequences ==
    (result.fn = "parse_expr" /\ toks # <<>> /\ ~AtStart) =>
        /\ result.st = "ok"
        /\ result.stop = Len(toks) + 1
        /\ SameSeq(result.v, toks)

\* a ; let x = 1 in a ; 2 + b is Seq(a, Let(x = 1, Seq(a, 2 + b)))
C19_Witness ==
    /\ result.fn = "parse_expr" /\ result.st = "ok" /\ toks = SeqExample
    /\ result.v.k = "Seq" /\ result.v.right.k = "Let"
    /\ result.v.right.body.k = "Seq" /\ result.v.right.body.right.k = "Binary"

(***************************************************************************)
(* SpecPostfix: a method invocation a.m(x) or an instantiation new T(x),   *)
(* directly followed by argument lists and .name accesses; handed to       *)
(* parse and to parse_expr.                                                *)
(***************************************************************************)
MaxPostfix == 3

\* a.m(x)
InvokeBase == <<Name("a"), T("Dot"), Name("m"), T("Lparen"), Name("x"), T("Rparen")>>
\* new T(x)
NewBase == <<T("New"), Name("T"), T("Lparen"), Name("x"), T("Rparen")>>
PostfixBases == {InvokeBase, NewBase}

\* (y)   ()   .f   .g(y)
Continuations == {<<T("Lparen"), Name("y"), T("Rparen")>>,
                  <<T("Lparen"), T("Rparen")>>,
                  <<T("Dot"), Name("f")>>,
                  <<T("Dot"), Name("g"), T("Lparen"), Name("y"), T("Rparen")>>}

WrittenBase == CHOOSE b \in PostfixBases : IsPrefix(b, toks)
\* the ( and . written after the base
NumMarks ==
    Cardinality({i \in DOMAIN toks :
                    i > Len(WrittenBase) /\ toks[i].t \in {"Lparen", "Dot"}})

LoadBase(b) == Load(b)

PushContinuation(c) ==
    /\ toks # <<>> /\ NumMarks < MaxPostfix
    /\ toks' = toks \o c
    /\ result' = NoResult
    /\ lowered' = NoLowered
    /\ UNCHANGED notParser

NextPostfix ==
    \/ \E b \in PostfixBases : LoadBase(b)
    \/ \E c \in Continuations : PushContinuation(c)
    \/ RunParse
    \/ RunParseExpr

SpecPostfix == InitAll /\ [][NextPostfix]_vars

(***************************************************************************)
(* C21: postfix chains.                                                    *)
(***************************************************************************)
HasContinuation == toks # <<>> /\ Len(toks) > Len(WrittenBase)

\* a.m(x)(y)
InvokeThenCall == InvokeBase \o <<T("Lparen"), Name("y"), T("Rparen")>>

\* C21 as stated: an argument list or a .name that directly follows a.m(x) or
\* new T(x) is applied to that result, so that parse_expr reads the whole
\* chain (it stops only at a token that cannot continue the expression), a
\* successful parse gives a single statement, and a.m(x)(y) is the
\* application of the invocation's result to y.
C21_Original ==
    /\ (result.fn = "parse_expr" /\ HasContinuation) =>
           /\ result.st = "ok"
           /\ result.stop = Len(toks) + 1
           /\ toks = InvokeThenCall =>
                  result.v.k = "App" /\ result.v.callee.k = "Invoke"
    /\ (result.fn = "parse" /\ HasContinuation /\ result.st = "ok") =>
           Len(result.v) = 1

\* the place of the first token the chain is not continued with: for new T(x)
\* the token after the base, for a.m(x) the first ( that follows a )
ChainEnd ==
    LET ends == {i \in (Len(WrittenBase) + 1)..Len(toks) :
                    \/ WrittenBase = NewBase
                    \/ toks[i].t = "Lparen" /\ toks[i - 1].t = "Rparen"} IN
    IF ends = {} THEN Len(toks) + 1 ELSE CHOOSE i \in ends : \A j \in ends : i <= j

\* what holds: parse_expr succeeds and stops at ChainEnd; its node is the
\* instantiation, or the dot chain up to there (never an application)
PostfixAsParsed ==
    (result.fn = "parse_expr" /\ toks # <<>>) =>
        /\ result.st = "ok"
        /\ result.stop = ChainEnd
        /\ result.v.k \in {"New", "Invoke", "Field"}
        /\ WrittenBase = NewBase => result.v.k = "New"

====
